---------------------------- MODULE Spec2Model ----------------------------
(***************************************************************************)
(* A model of TetrisEngine (src/src/tetrisLogic.ts): the board, the active *)
(* piece, the shuffled-bag queue, scoring, line clearing and the run       *)
(* state.                                                                  *)
(*                                                                         *)
(* Conventions.  TypeScript arrays are 0-based and TLA+ sequences 1-based: *)
(* board[boardY][boardX] of the source is board[boardY + 1][boardX + 1]    *)
(* here, matrix[row][col] is matrix[row + 1][col + 1], and queue[0] is     *)
(* Head(queue).  Coordinates (x, y, boardX, boardY, row, col) keep the     *)
(* source's 0-based values.  null is the string Null for a cell, and the   *)
(* empty sequence for `ActivePiece | null`: currentPiece is <<>> or <<p>>. *)
(* Math.random is a parameter: every operation that may refill the queue   *)
(* takes the vector rnd of the six values Math.floor(Math.random()*(i+1))  *)
(* its shuffle would draw.                                                 *)
(***************************************************************************)
EXTENDS Integers, Sequences, FiniteSets, TLC

VARIABLES
    board,          \* Cell[][]: height rows of width cells
    queue,          \* TetrominoType[]
    currentPiece,   \* ActivePiece | null
    running,        \* boolean
    score,          \* number
    linesCleared,   \* number
    gameOver,       \* boolean
    op,             \* history: the last public call: its name, whether it locked
                    \* a piece, and the kind its spawnNextPiece drew, if any
    nOps,           \* history: number of public calls made so far
    nLocks,         \* history: number of lock events so far
    session,        \* history: "none" before the first start, then "fresh"
                    \* after start() and "snapshot" after start(snapshot)
    spawned,        \* history: kinds drawn by spawnNextPiece since the last start
    probe,          \* the last direct canPlace query and its answer
    refs,           \* the identities of the arrays and objects the engine holds
                    \* and of those its caller holds (followed under SpecAlias)
    scene           \* the fields of the TetrixScene that owns the engine, and
                    \* what its last call did (followed under SpecScene)

engineVars == <<board, queue, currentPiece, running, score, linesCleared, gameOver>>
vars == <<board, queue, currentPiece, running, score, linesCleared, gameOver,
          op, nOps, nLocks, session, spawned, probe, refs, scene>>

---------------------------------------------------------------------------
(* Constants of the source *)

BOARD_WIDTH == 10
BOARD_HEIGHT == 20

width == BOARD_WIDTH
height == BOARD_HEIGHT

Null == "null"

TETROMINO_ORDER == <<"I", "J", "L", "O", "S", "T", "Z">>

TetrominoType == {"I", "J", "L", "O", "S", "T", "Z"}

TETROMINO_SHAPES ==
    [ I |-> << <<1, 1, 1, 1>> >>,
      J |-> << <<1, 0, 0>>,
               <<1, 1, 1>> >>,
      L |-> << <<0, 0, 1>>,
               <<1, 1, 1>> >>,
      O |-> << <<1, 1>>,
               <<1, 1>> >>,
      S |-> << <<0, 1, 1>>,
               <<1, 1, 0>> >>,
      T |-> << <<0, 1, 0>>,
               <<1, 1, 1>> >>,
      Z |-> << <<1, 1, 0>>,
               <<0, 1, 1>> >> ]

SCORE_TABLE == <<0, 40, 100, 300, 1200>>

InputAction == {"moveLeft", "moveRight", "rotate", "softDrop", "hardDrop"}

---------------------------------------------------------------------------
(* Bounds of the model *)

\* calls explored after construction
MaxOps == 4
\* in a session explored in depth: lock events, and calls that do not lock
MaxLocks == 14
MaxDetours == 1
\* Math.random outcomes explored per shuffle
NumSeeds == 2
\* canPlace is queried up to this many cells outside the grid
ProbeMargin == 2
\* calls explored while the references are followed
MaxAliasOps == 3
\* largest linesCleared for which the drop interval is evaluated
MaxLinesCleared == 125
\* in a session that is played: pieces locked, columns a piece is moved away
\* from its spawn column, and pieces that are rotated or left to gravity
MaxPlayLocks == 3
MaxShift == 5
MaxTurned == 1
\* calls made on the scene
MaxSceneOps == 6

---------------------------------------------------------------------------
(* Pure helpers of the source *)

getMatrixForType(type) == TETROMINO_SHAPES[type]

\* Faulty variant of rotateMatrix: result[col][row] = matrix[row][col], the
\* transpose.
rotateMatrixTransposing(matrix) ==
    [i \in 1..Len(matrix[1]) |-> [j \in 1..Len(matrix) |-> matrix[j][i]]]

\* result[col][rows - row - 1] = matrix[row][col]
rotateMatrix(matrix) ==
    LET rows == Len(matrix)
        cols == Len(matrix[1])
    IN  [i \in 1..cols |-> [j \in 1..rows |-> matrix[rows - j + 1][i]]]

\* a matrix after n calls of rotateMatrix
RECURSIVE rotateTimes(_, _)
rotateTimes(matrix, n) ==
    IF n = 0 THEN matrix ELSE rotateTimes(rotateMatrix(matrix), n - 1)

createEmptyBoard == [r \in 1..height |-> [c \in 1..width |-> Null]]

\* the filled cells of a matrix, as 0-based <<row, col>> pairs
Filled(matrix) ==
    {rc \in (0..(Len(matrix) - 1)) \X (0..(Len(matrix[1]) - 1)) :
        matrix[rc[1] + 1][rc[2] + 1] # 0}

\* Faulty variant of canPlace: the row test `boardY < 0` comes before the
\* column test, so a cell above the grid is accepted in any column.
canPlaceRowFirst(b, matrix, x, y) ==
    \A rc \in Filled(matrix) :
        LET boardX == x + rc[2]
            boardY == y + rc[1]
        IN  IF boardY < 0 THEN TRUE
            ELSE IF boardX < 0 \/ boardX >= width THEN FALSE
            ELSE IF boardY >= height THEN FALSE
            ELSE b[boardY + 1][boardX + 1] = Null

\* Faulty variant of canPlace: the occupied-cell test is left out, only the
\* walls and the floor refuse a position.
canPlaceIgnoringCells(b, matrix, x, y) ==
    \A rc \in Filled(matrix) :
        LET boardX == x + rc[2]
            boardY == y + rc[1]
        IN  IF boardX < 0 \/ boardX >= width THEN FALSE
            ELSE IF boardY >= height THEN FALSE
            ELSE TRUE

canPlace(b, matrix, x, y) ==
    \A rc \in Filled(matrix) :
        LET boardX == x + rc[2]
            boardY == y + rc[1]
        IN  IF boardX < 0 \/ boardX >= width THEN FALSE
            ELSE IF boardY >= height THEN FALSE
            ELSE IF boardY < 0 THEN TRUE
            ELSE b[boardY + 1][boardX + 1] = Null

\* Faulty variant of getLevel: Math.round in place of Math.floor.
getLevelRounded(e) == ((e.linesCleared + 5) \div 10) + 1

getLevel(e) == (e.linesCleared \div 10) + 1

Max(a, b) == IF a > b THEN a ELSE b

\* Faulty variant of getDropInterval: the decay is not capped at ten levels.
getDropIntervalUncapped(e) == Max(1000 - (getLevel(e) - 1) * 60, 300)

getDropInterval(e) ==
    LET level == getLevel(e)
        base == 1000
        decay == (IF level - 1 < 10 THEN level - 1 ELSE 10) * 60
    IN  Max(base - decay, 300)

---------------------------------------------------------------------------
(* The queue: shuffle and ensureQueue *)

\* Faulty variant of the swap of shuffle: items[i] = items[j] alone.
SwapLossy(items, a, b) == [items EXCEPT ![a] = items[b]]

Swap(items, a, b) == [items EXCEPT ![a] = items[b], ![b] = items[a]]

\* for (i = items.length - 1; i > 0; i -= 1) swap items[i], items[rnd[i]]
RECURSIVE shuffleFrom(_, _, _)
shuffleFrom(items, i, rnd) ==
    IF i <= 0 THEN items
    ELSE shuffleFrom(Swap(items, i + 1, rnd[i] + 1), i - 1, rnd)

shuffle(items, rnd) == shuffleFrom(items, Len(items) - 1, rnd)

RECURSIVE Factorial(_)
Factorial(n) == IF n <= 1 THEN 1 ELSE n * Factorial(n - 1)

\* The draws Math.floor(Math.random() * (i + 1)), i = 1..6, of one shuffle.
\* Seed s stands for the s-th of the 5040 possible draw vectors, taken in a
\* scattered order so that a few seeds give unrelated permutations.
DrawsOf(s) ==
    LET n == (s * 1597) % Factorial(Len(TETROMINO_ORDER))
    IN  [i \in 1..(Len(TETROMINO_ORDER) - 1) |-> (n \div Factorial(i)) % (i + 1)]

Draws == {DrawsOf(s) : s \in 0..(NumSeeds - 1)}

\* Faulty variant of ensureQueue: the queue is refilled only once it is empty.
ensureQueueWhenEmpty(e, rnd) ==
    IF Len(e.queue) < 1
    THEN [e EXCEPT !.queue = e.queue \o shuffle(TETROMINO_ORDER, rnd)]
    ELSE e

\* Faulty variant of ensureQueue: `<=` for `<`, a queue of 7 is refilled too.
ensureQueueAtSeven(e, rnd) ==
    IF Len(e.queue) <= Len(TETROMINO_ORDER)
    THEN [e EXCEPT !.queue = e.queue \o shuffle(TETROMINO_ORDER, rnd)]
    ELSE e

\* while (queue.length < 7) push a shuffled bag: one push always reaches 7
ensureQueue(e, rnd) ==
    IF Len(e.queue) < Len(TETROMINO_ORDER)
    THEN [e EXCEPT !.queue = e.queue \o shuffle(TETROMINO_ORDER, rnd)]
    ELSE e

---------------------------------------------------------------------------
(* The engine as a record, and its private operations *)

Eng == [board |-> board, queue |-> queue, currentPiece |-> currentPiece,
        running |-> running, score |-> score, linesCleared |-> linesCleared,
        gameOver |-> gameOver]

\* state after the constructor
NewEngine == [board |-> createEmptyBoard, queue |-> <<>>, currentPiece |-> <<>>,
              running |-> FALSE, score |-> 0, linesCleared |-> 0,
              gameOver |-> FALSE]

HasPiece(e) == e.currentPiece # <<>>
Piece(e) == e.currentPiece[1]

\* Faulty variant of the spawn column: Math.ceil in place of Math.floor.
spawnXCeil(matrix) == (width - Len(matrix[1]) + 1) \div 2

spawnX(matrix) == (width - Len(matrix[1])) \div 2

\* Faulty variant of spawnNextPiece: `queue.pop()` for `queue.shift()`, the
\* kind is taken from the back of the queue.
spawnNextPieceFromBack(e, rnd) ==
    LET q == ensureQueue(e, rnd).queue
        type == q[Len(q)]
        matrix == getMatrixForType(type)
        candidate == [type |-> type, matrix |-> matrix, x |-> spawnX(matrix), y |-> -1]
        e1 == [e EXCEPT !.queue = SubSeq(q, 1, Len(q) - 1)]
    IN  IF ~canPlace(e.board, matrix, candidate.x, candidate.y)
        THEN [e1 EXCEPT !.currentPiece = <<>>, !.gameOver = TRUE, !.running = FALSE]
        ELSE [e1 EXCEPT !.currentPiece = <<candidate>>]

\* Faulty variant of spawnNextPiece: the candidate becomes the active piece
\* without the canPlace test.
spawnNextPieceUnchecked(e, rnd) ==
    LET q == ensureQueue(e, rnd).queue
        type == Head(q)
        matrix == getMatrixForType(type)
        candidate == [type |-> type, matrix |-> matrix, x |-> spawnX(matrix), y |-> -1]
    IN  [e EXCEPT !.queue = Tail(q), !.currentPiece = <<candidate>>]

\* Faulty variant of spawnNextPiece: a failed spawn ends the game but leaves
\* the running flag as it was.
spawnNextPieceStillRunning(e, rnd) ==
    LET q == ensureQueue(e, rnd).queue
        type == Head(q)
        matrix == getMatrixForType(type)
        candidate == [type |-> type, matrix |-> matrix, x |-> spawnX(matrix), y |-> -1]
    IN  IF canPlace(e.board, matrix, candidate.x, candidate.y)
        THEN [e EXCEPT !.queue = Tail(q), !.currentPiece = <<candidate>>]
        ELSE [e EXCEPT !.queue = Tail(q), !.currentPiece = <<>>, !.gameOver = TRUE]

\* Faulty variant of spawnNextPiece: a failed spawn removes the piece and
\* stops the engine but does not set the game-over flag.
spawnNextPieceNotEnding(e, rnd) ==
    LET q == ensureQueue(e, rnd).queue
        type == Head(q)
        matrix == getMatrixForType(type)
        candidate == [type |-> type, matrix |-> matrix, x |-> spawnX(matrix), y |-> -1]
    IN  IF canPlace(e.board, matrix, candidate.x, candidate.y)
        THEN [e EXCEPT !.queue = Tail(q), !.currentPiece = <<candidate>>]
        ELSE [e EXCEPT !.queue = Tail(q), !.currentPiece = <<>>, !.running = FALSE]

\* (`if (!type) return` is never taken: ensureQueue leaves 7 entries or more)
spawnNextPiece(e, rnd) ==
    LET q == ensureQueue(e, rnd).queue
        type == Head(q)
        matrix == getMatrixForType(type)
        x == spawnX(matrix)
        y == -1
        candidate == [type |-> type, matrix |-> matrix, x |-> x, y |-> y]
    IN  IF canPlace(e.board, matrix, x, y)
        THEN [e EXCEPT !.queue = Tail(q), !.currentPiece = <<candidate>>]
        ELSE [e EXCEPT !.queue = Tail(q), !.currentPiece = <<>>,
                       !.gameOver = TRUE, !.running = FALSE]

\* Faulty variant of shiftPiece: the piece is moved without the canPlace test.
shiftPieceUnchecked(e, deltaX) ==
    IF ~HasPiece(e) THEN e
    ELSE [e EXCEPT !.currentPiece = <<[Piece(e) EXCEPT !.x = Piece(e).x + deltaX]>>]

shiftPiece(e, deltaX) ==
    IF ~HasPiece(e) THEN e
    ELSE LET p == Piece(e)
             targetX == p.x + deltaX
         IN  IF canPlace(e.board, p.matrix, targetX, p.y)
             THEN [e EXCEPT !.currentPiece = <<[p EXCEPT !.x = targetX]>>]
             ELSE e

\* Faulty variant of kicks: the right offsets are tried before the left ones.
kicksRightFirst == <<0, 1, -1, 2, -2>>

kicks == <<0, -1, 1, -2, 2>>

RECURSIVE rotateKick(_, _, _)
rotateKick(e, rotated, k) ==
    IF k > Len(kicks) THEN e
    ELSE LET p == Piece(e)
             targetX == p.x + kicks[k]
         IN  IF canPlace(e.board, rotated, targetX, p.y)
             THEN [e EXCEPT !.currentPiece =
                      <<[p EXCEPT !.matrix = rotated, !.x = targetX]>>]
             ELSE rotateKick(e, rotated, k + 1)

\* Faulty variant of rotatePiece: the rotated matrix is taken without the
\* canPlace test, at the piece's own column (no kick).
rotatePieceUnchecked(e) ==
    IF ~HasPiece(e) THEN e
    ELSE [e EXCEPT !.currentPiece =
             <<[Piece(e) EXCEPT !.matrix = rotateMatrix(Piece(e).matrix)]>>]

rotatePiece(e) ==
    IF ~HasPiece(e) THEN e
    ELSE rotateKick(e, rotateMatrix(Piece(e).matrix), 1)

\* Faulty variant of lockCurrentPiece: a filled cell above the grid is
\* written into row 0 (`Math.max(boardY, 0)` for the `boardY < 0` skip).
lockClampingRows(e) ==
    IF ~HasPiece(e) THEN e
    ELSE LET p == Piece(e)
             cells == {<<Max(p.y + rc[1], 0), p.x + rc[2]>> : rc \in Filled(p.matrix)}
         IN  [e EXCEPT
                !.board = [r \in 1..height |-> [c \in 1..width |->
                    IF <<r - 1, c - 1>> \in cells THEN p.type ELSE e.board[r][c]]],
                !.currentPiece = <<>>]

lockCurrentPiece(e) ==
    IF ~HasPiece(e) THEN e
    ELSE LET p == Piece(e)
             cells == {<<p.y + rc[1], p.x + rc[2]>> : rc \in Filled(p.matrix)}
         IN  [e EXCEPT
                !.board = [r \in 1..height |-> [c \in 1..width |->
                    IF <<r - 1, c - 1>> \in cells THEN p.type ELSE e.board[r][c]]],
                !.currentPiece = <<>>]

RowComplete(line) == \A c \in 1..Len(line) : line[c] # Null

emptyRow == [c \in 1..width |-> Null]

\* Faulty variant of the row removal: the row put on top has `this.height`
\* cells, not `this.width`.
RemoveRowTall(b, row) ==
    <<[c \in 1..height |-> Null]>> \o SubSeq(b, 1, row) \o SubSeq(b, row + 2, Len(b))

\* board.splice(row, 1); board.unshift(empty row)     (row is 0-based)
RemoveRow(b, row) == <<emptyRow>> \o SubSeq(b, 1, row) \o SubSeq(b, row + 2, Len(b))

\* Faulty variant of the scan of clearLines: `row += 1` is missing, so the row
\* that moved into the place of a removed row is not tested.
RECURSIVE clearLoopSkipping(_, _, _)
clearLoopSkipping(b, row, lines) ==
    IF row < 0 THEN [board |-> b, lines |-> lines]
    ELSE IF RowComplete(b[row + 1])
         THEN clearLoopSkipping(RemoveRow(b, row), row - 1, lines + 1)
         ELSE clearLoopSkipping(b, row - 1, lines)

\* for (row = height - 1; row >= 0; row -= 1) { if complete { ...; row += 1 } }
RECURSIVE clearLoop(_, _, _)
clearLoop(b, row, lines) ==
    IF row < 0 THEN [board |-> b, lines |-> lines]
    ELSE IF RowComplete(b[row + 1])
         THEN clearLoop(RemoveRow(b, row), row, lines + 1)
         ELSE clearLoop(b, row - 1, lines)

\* Faulty variant of the score lookup: `SCORE_TABLE[lines - 1] || 0`.
scoreForPrevious(lines) ==
    IF lines >= 1 /\ lines <= Len(SCORE_TABLE) THEN SCORE_TABLE[lines] ELSE 0

\* SCORE_TABLE[lines] || 0
scoreFor(lines) == IF lines + 1 <= Len(SCORE_TABLE) THEN SCORE_TABLE[lines + 1] ELSE 0

\* Faulty variant of clearLines: the level is read before linesCleared is
\* increased.
clearLinesOldLevel(e) ==
    LET res == clearLoop(e.board, height - 1, 0)
        lines == res.lines
        e1 == [e EXCEPT !.board = res.board]
    IN  IF lines > 0
        THEN [e1 EXCEPT !.score = e.score + scoreFor(lines) * getLevel(e),
                        !.linesCleared = e.linesCleared + lines]
        ELSE e1

\* Faulty variant of clearLines: the complete rows are counted and scored
\* but left in the grid.
clearLinesKeepingRows(e) ==
    LET lines == clearLoop(e.board, height - 1, 0).lines
    IN  IF lines > 0
        THEN LET e2 == [e EXCEPT !.linesCleared = e.linesCleared + lines]
             IN  [e2 EXCEPT !.score = e.score + scoreFor(lines) * getLevel(e2)]
        ELSE e

clearLines(e) ==
    LET res == clearLoop(e.board, height - 1, 0)
        lines == res.lines
        e1 == [e EXCEPT !.board = res.board]
    IN  IF lines > 0
        THEN LET e2 == [e1 EXCEPT !.linesCleared = e.linesCleared + lines]
             IN  [e2 EXCEPT !.score = e.score + scoreFor(lines) * getLevel(e2)]
        ELSE e1

\* Faulty variant of stepDown: a manual step that locks the piece is awarded
\* the +1 as well.
stepDownBonusOnLock(e, manual, rnd) ==
    IF ~HasPiece(e) THEN e
    ELSE LET p == Piece(e)
         IN  IF canPlace(e.board, p.matrix, p.x, p.y + 1)
             THEN [e EXCEPT !.currentPiece = <<[p EXCEPT !.y = p.y + 1]>>,
                            !.score = IF manual THEN e.score + 1 ELSE e.score]
             ELSE LET e1 == spawnNextPiece(clearLines(lockCurrentPiece(e)), rnd)
                  IN  [e1 EXCEPT !.score = IF manual THEN e1.score + 1 ELSE e1.score]

\* Faulty variant of stepDown: gated on isRunning() as handleAction is.
stepDownWhenRunning(e, manual, rnd) ==
    IF ~(e.running /\ ~e.gameOver) \/ ~HasPiece(e) THEN e
    ELSE LET p == Piece(e)
         IN  IF canPlace(e.board, p.matrix, p.x, p.y + 1)
             THEN [e EXCEPT !.currentPiece = <<[p EXCEPT !.y = p.y + 1]>>,
                            !.score = IF manual THEN e.score + 1 ELSE e.score]
             ELSE spawnNextPiece(clearLines(lockCurrentPiece(e)), rnd)

stepDown(e, manual, rnd) ==
    IF ~HasPiece(e) THEN e
    ELSE LET p == Piece(e)
         IN  IF canPlace(e.board, p.matrix, p.x, p.y + 1)
             THEN [e EXCEPT !.currentPiece = <<[p EXCEPT !.y = p.y + 1]>>,
                            !.score = IF manual THEN e.score + 1 ELSE e.score]
             ELSE spawnNextPiece(clearLines(lockCurrentPiece(e)), rnd)

\* while (canPlace(matrix, x, y + 1)) { y += 1; distance += 1 }
RECURSIVE dropDistance(_, _, _)
dropDistance(e, y, distance) ==
    IF canPlace(e.board, Piece(e).matrix, Piece(e).x, y + 1)
    THEN dropDistance(e, y + 1, distance + 1)
    ELSE distance

\* Faulty variant of hardDrop: the bonus is `distance`, not `distance * 2`.
hardDropSingleBonus(e, rnd) ==
    IF ~HasPiece(e) THEN e
    ELSE LET p == Piece(e)
             distance == dropDistance(e, p.y, 0)
             e1 == [e EXCEPT !.currentPiece = <<[p EXCEPT !.y = p.y + distance]>>,
                             !.score = IF distance > 0
                                       THEN e.score + distance ELSE e.score]
         IN  spawnNextPiece(clearLines(lockCurrentPiece(e1)), rnd)

\* Faulty variant of hardDrop: the bonus replaces the score (`=` for `+=`).
hardDropBonusAssigned(e, rnd) ==
    IF ~HasPiece(e) THEN e
    ELSE LET p == Piece(e)
             distance == dropDistance(e, p.y, 0)
             e1 == [e EXCEPT !.currentPiece = <<[p EXCEPT !.y = p.y + distance]>>,
                             !.score = IF distance > 0
                                       THEN distance * 2 ELSE e.score]
         IN  spawnNextPiece(clearLines(lockCurrentPiece(e1)), rnd)

\* Faulty variant of hardDrop: the piece is locked and the next one spawned
\* without the clearLines() between them.
hardDropWithoutClear(e, rnd) ==
    IF ~HasPiece(e) THEN e
    ELSE LET p == Piece(e)
             distance == dropDistance(e, p.y, 0)
             e1 == [e EXCEPT !.currentPiece = <<[p EXCEPT !.y = p.y + distance]>>,
                             !.score = IF distance > 0
                                       THEN e.score + distance * 2 ELSE e.score]
         IN  spawnNextPiece(lockCurrentPiece(e1), rnd)

hardDrop(e, rnd) ==
    IF ~HasPiece(e) THEN e
    ELSE LET p == Piece(e)
             distance == dropDistance(e, p.y, 0)
             e1 == [e EXCEPT !.currentPiece = <<[p EXCEPT !.y = p.y + distance]>>,
                             !.score = IF distance > 0
                                       THEN e.score + distance * 2 ELSE e.score]
         IN  spawnNextPiece(clearLines(lockCurrentPiece(e1)), rnd)

\* Faulty variant of computeGhostY: the row returned is the first one the
\* piece cannot enter (`return y + 1`).
computeGhostYBelow(e) ==
    IF ~HasPiece(e) THEN <<>>
    ELSE <<Piece(e).y + dropDistance(e, Piece(e).y, 0) + 1>>

computeGhostY(e) ==
    IF ~HasPiece(e) THEN <<>>
    ELSE <<Piece(e).y + dropDistance(e, Piece(e).y, 0)>>

---------------------------------------------------------------------------
(* The public operations *)

isRunning(e) == e.running /\ ~e.gameOver

pause(e) == [e EXCEPT !.running = FALSE]

\* Faulty variant of resume: without the `if (!this.gameOver)` test.
resumeUnconditional(e) == [e EXCEPT !.running = TRUE]

resume(e) == IF ~e.gameOver THEN [e EXCEPT !.running = TRUE] ELSE e

clonePiece(piece) ==
    [type |-> piece.type, matrix |-> piece.matrix, x |-> piece.x, y |-> piece.y]

getSnapshot(e) ==
    [board |-> e.board,
     currentPiece |-> IF HasPiece(e) THEN <<clonePiece(Piece(e))>> ELSE <<>>,
     queue |-> e.queue, score |-> e.score, linesCleared |-> e.linesCleared,
     isGameOver |-> e.gameOver]

\* Faulty variant of hydrateFromSnapshot: the snapshot's queue is not copied,
\* so the queue is refilled from a new bag.
hydrateLosingQueue(e, snapshot, rnd) ==
    LET e1 == [e EXCEPT
                  !.board = snapshot.board,
                  !.currentPiece = snapshot.currentPiece,
                  !.queue = <<>>,
                  !.score = snapshot.score,
                  !.linesCleared = snapshot.linesCleared,
                  !.gameOver = snapshot.isGameOver]
        e2 == ensureQueue(e1, rnd)
    IN  IF ~HasPiece(e2) /\ ~e2.gameOver THEN spawnNextPiece(e2, rnd) ELSE e2

\* Variant of hydrateFromSnapshot that refills every queue shorter than 7
\* entries, not only the empty one (ensureQueue called unconditionally).
hydrateToppingUp(e, snapshot, rnd) ==
    LET e1 == [e EXCEPT
                  !.board = snapshot.board,
                  !.currentPiece = snapshot.currentPiece,
                  !.queue = snapshot.queue,
                  !.score = snapshot.score,
                  !.linesCleared = snapshot.linesCleared,
                  !.gameOver = snapshot.isGameOver]
        e2 == ensureQueue(e1, rnd)
    IN  IF ~HasPiece(e2) /\ ~e2.gameOver THEN spawnNextPiece(e2, rnd) ELSE e2

hydrateFromSnapshot(e, snapshot, rnd) ==
    LET e1 == [e EXCEPT
                  !.board = snapshot.board,
                  !.currentPiece = IF snapshot.currentPiece # <<>>
                                   THEN <<clonePiece(snapshot.currentPiece[1])>>
                                   ELSE <<>>,
                  !.queue = snapshot.queue,
                  !.score = snapshot.score,
                  !.linesCleared = snapshot.linesCleared,
                  !.gameOver = snapshot.isGameOver]
        e2 == IF Len(e1.queue) = 0 THEN ensureQueue(e1, rnd) ELSE e1
    IN  IF ~HasPiece(e2) /\ ~e2.gameOver THEN spawnNextPiece(e2, rnd) ELSE e2

\* Faulty variant of start(): the score is not reset.
startKeepingScore(e, rnd) ==
    LET e1 == [e EXCEPT !.board = createEmptyBoard, !.queue = <<>>,
                        !.currentPiece = <<>>,
                        !.linesCleared = 0, !.gameOver = FALSE]
        e2 == spawnNextPiece(ensureQueue(e1, rnd), rnd)
    IN  [e2 EXCEPT !.running = ~e2.gameOver]

\* start() without a snapshot
start(e, rnd) ==
    LET e1 == [e EXCEPT !.board = createEmptyBoard, !.queue = <<>>,
                        !.currentPiece = <<>>, !.score = 0,
                        !.linesCleared = 0, !.gameOver = FALSE]
        e2 == spawnNextPiece(ensureQueue(e1, rnd), rnd)
    IN  [e2 EXCEPT !.running = ~e2.gameOver]

\* Faulty variant of start(snapshot): without `this.running = !this.gameOver`
\* the run flag stays as it was.
startFromKeepingRunFlag(e, snapshot, rnd) == hydrateFromSnapshot(e, snapshot, rnd)

\* start(snapshot)
startFrom(e, snapshot, rnd) ==
    LET e1 == hydrateFromSnapshot(e, snapshot, rnd)
    IN  [e1 EXCEPT !.running = ~e1.gameOver]

\* Faulty variant of handleAction: without the `if (!this.isRunning()) return`
\* gate, the action is dispatched whatever the run state.
handleActionUngated(e, action, rnd) ==
    CASE action = "moveLeft" -> shiftPiece(e, -1)
      [] action = "moveRight" -> shiftPiece(e, 1)
      [] action = "rotate" -> rotatePiece(e)
      [] action = "softDrop" -> stepDown(e, TRUE, rnd)
      [] action = "hardDrop" -> hardDrop(e, rnd)

handleAction(e, action, rnd) ==
    IF ~isRunning(e) THEN e
    ELSE CASE action = "moveLeft" -> shiftPiece(e, -1)
           [] action = "moveRight" -> shiftPiece(e, 1)
           [] action = "rotate" -> rotatePiece(e)
           [] action = "softDrop" -> stepDown(e, TRUE, rnd)
           [] action = "hardDrop" -> hardDrop(e, rnd)

\* Faulty variant of getRenderState: the queue is replaced by a new bag, not
\* extended by one.
getRenderStateRefilling(e, rnd) ==
    LET e1 == ensureQueue([e EXCEPT !.queue = <<>>], rnd)
    IN  [engine |-> e1,
         state |-> [board |-> e1.board,
                    currentPiece |-> IF HasPiece(e1) THEN <<clonePiece(Piece(e1))>>
                                     ELSE <<>>,
                    queue |-> e1.queue, score |-> e1.score,
                    linesCleared |-> e1.linesCleared, isGameOver |-> e1.gameOver,
                    width |-> width, height |-> height, level |-> getLevel(e1),
                    nextPiece |-> e1.queue[1],
                    ghostY |-> computeGhostY(e1),
                    dropInterval |-> getDropInterval(e1)]]

\* the engine after getRenderState (it calls ensureQueue) and the value returned
getRenderState(e, rnd) ==
    LET e1 == ensureQueue(e, rnd)
    IN  [engine |-> e1,
         state |-> [board |-> e1.board,
                    currentPiece |-> IF HasPiece(e1) THEN <<clonePiece(Piece(e1))>>
                                     ELSE <<>>,
                    queue |-> e1.queue, score |-> e1.score,
                    linesCleared |-> e1.linesCleared, isGameOver |-> e1.gameOver,
                    width |-> width, height |-> height, level |-> getLevel(e1),
                    nextPiece |-> e1.queue[1],
                    ghostY |-> computeGhostY(e1),
                    dropInterval |-> getDropInterval(e1)]]

---------------------------------------------------------------------------
(* References.  A JavaScript array or object has an identity, and two      *)
(* holders of one identity see each other's writes.  The operators below   *)
(* follow identities only: which arrays and objects the engine's fields    *)
(* lead to and which ones its caller holds.  An identity is a number; n is *)
(* the first number not yet in use, and an operator that builds k arrays   *)
(* or objects uses n .. n + k - 1.  The arrays of TETROMINO_SHAPES have    *)
(* negative numbers.                                                       *)

\* k new identities from n on
Alloc(n, k) == [i \in 1..k |-> n + i - 1]

IdsIn(ids) == {ids[i] : i \in DOMAIN ids}

ShapeIndex(type) == CHOOSE i \in DOMAIN TETROMINO_ORDER : TETROMINO_ORDER[i] = type

\* TETROMINO_SHAPES[type]: the matrix and its rows
TableRefs(type) ==
    [matrix |-> 0 - 10 * ShapeIndex(type),
     mrows |-> [i \in 1..Len(TETROMINO_SHAPES[type]) |-> 0 - (10 * ShapeIndex(type) + i)]]

TableIds ==
    UNION {{TableRefs(type).matrix} \cup IdsIn(TableRefs(type).mrows) : type \in TetrominoType}

\* Faulty variant of getMatrixForType: the table's own arrays are returned
\* (`return TETROMINO_SHAPES[type]`).
getMatrixRefsShared(type, n) == TableRefs(type)

\* getMatrixForType: .map((row) => [...row]) builds a new matrix of new rows
getMatrixRefs(type, n) ==
    [matrix |-> n, mrows |-> Alloc(n + 1, Len(TETROMINO_SHAPES[type]))]

\* rotateMatrix: Array.from builds a new matrix of new rows, one per column
\* of the matrix rotated
rotateMatrixRefs(cols, n) == [matrix |-> n, mrows |-> Alloc(n + 1, cols)]

\* createEmptyBoard: Array.from builds a new array of new rows
createEmptyBoardRefs(n) == [arr |-> n, rows |-> Alloc(n + 1, height)]

\* Faulty variant of cloneBoard: the rows are shared (`[...this.board]`).
cloneBoardRefsShallow(rows, n) == [arr |-> n, rows |-> rows]

\* cloneBoard, and the copy in hydrateFromSnapshot: .map((row) => [...row])
cloneBoardRefs(rows, n) == [arr |-> n, rows |-> Alloc(n + 1, Len(rows))]

\* clonePiece: a new object, with a new matrix of new rows
clonePieceRefs(piece, n) ==
    [obj |-> n, matrix |-> n + 1, mrows |-> Alloc(n + 2, Len(piece.mrows))]

\* the numbers a board, a piece (none or one) and a snapshot use
BoardIds(b) == {b.arr} \cup IdsIn(b.rows)
PieceIds(p) == IF p = <<>> THEN {} ELSE {p[1].obj, p[1].matrix} \cup IdsIn(p[1].mrows)
SnapshotIds(v) == BoardIds(v.board) \cup PieceIds(v.piece) \cup {v.queue}

\* the first number free after a piece built from n on
AfterPiece(p, n) == IF p = <<>> THEN n ELSE n + 2 + Len(p[1].mrows)

\* the engine after construction: the board of createEmptyBoard and the
\* queue array, no piece; the caller holds nothing
NewRefs ==
    [boardArr |-> 1, rows |-> Alloc(2, height), queueArr |-> height + 2,
     piece |-> <<>>, next |-> height + 3, held |-> {}, dirty |-> {}]

EngineIds(r) ==
    {r.boardArr, r.queueArr} \cup IdsIn(r.rows) \cup PieceIds(r.piece)

\* spawnNextPiece: the candidate is a new object holding the matrix that
\* getMatrixForType returns; it becomes the piece when it can be placed
spawnNextPieceRefs(r, type, placed) ==
    LET m == getMatrixRefs(type, r.next + 1)
        candidate == [obj |-> r.next, matrix |-> m.matrix, mrows |-> m.mrows]
    IN  [r EXCEPT !.piece = IF placed THEN <<candidate>> ELSE <<>>,
                  !.next = r.next + 2 + Len(TETROMINO_SHAPES[type])]

\* rotatePiece, when a kick is accepted: the piece keeps its object and
\* takes the matrix rotateMatrix built
rotatePieceRefs(r, cols) ==
    LET m == rotateMatrixRefs(cols, r.next)
    IN  [r EXCEPT !.piece = <<[r.piece[1] EXCEPT !.matrix = m.matrix,
                                                !.mrows = m.mrows]>>,
                  !.next = r.next + 1 + cols]

\* lockCurrentPiece writes cells of the rows in place; currentPiece = null
lockCurrentPieceRefs(r) == [r EXCEPT !.piece = <<>>]

\* the rows of a board, from row number row on, that are not complete
RECURSIVE keptRows(_, _, _)
keptRows(rows, b, row) ==
    IF row > Len(rows) THEN <<>>
    ELSE (IF RowComplete(b[row]) THEN <<>> ELSE <<rows[row]>>)
         \o keptRows(rows, b, row + 1)

\* clearLines on board b: splice takes each complete row out of the array,
\* unshift puts a new row on top
clearLinesRefs(r, b) ==
    LET kept == keptRows(r.rows, b, 1)
        lines == Len(r.rows) - Len(kept)
    IN  [r EXCEPT !.rows = Alloc(r.next, lines) \o kept,
                  !.next = r.next + lines]

\* what getSnapshot and getRenderState return: cloneBoard(), clonePiece of
\* the piece if there is one, [...this.queue]
readRefs(r) ==
    LET b == cloneBoardRefs(r.rows, r.next)
        n1 == r.next + 1 + Len(r.rows)
        p == IF r.piece # <<>> THEN <<clonePieceRefs(r.piece[1], n1)>> ELSE <<>>
        n2 == AfterPiece(p, n1)
    IN  [board |-> b, piece |-> p, queue |-> n2, next |-> n2 + 1]

\* getSnapshot / getRenderState: the caller holds what was returned
returnRefs(r) ==
    LET v == readRefs(r)
    IN  [r EXCEPT !.next = v.next, !.held = r.held \cup SnapshotIds(v)]

\* a snapshot the caller built, shaped as the snapshot value: its board, its
\* piece if it has one, its queue
callerSnapshotRefs(snapshot, n) ==
    LET b == [arr |-> n, rows |-> Alloc(n + 1, Len(snapshot.board))]
        n1 == n + 1 + Len(snapshot.board)
        p == IF snapshot.currentPiece # <<>>
             THEN <<[obj |-> n1, matrix |-> n1 + 1,
                     mrows |-> Alloc(n1 + 2, Len(snapshot.currentPiece[1].matrix))]>>
             ELSE <<>>
        n2 == AfterPiece(p, n1)
    IN  [board |-> b, piece |-> p, queue |-> n2, next |-> n2 + 1]

\* hydrateFromSnapshot, before its spawn: the board is copied row by row, the
\* piece by clonePiece, the queue by [...snapshot.queue]
hydrateFromSnapshotRefs(r, v) ==
    LET b == cloneBoardRefs(v.board.rows, r.next)
        n1 == r.next + 1 + Len(v.board.rows)
        p == IF v.piece # <<>> THEN <<clonePieceRefs(v.piece[1], n1)>> ELSE <<>>
        n2 == AfterPiece(p, n1)
    IN  [r EXCEPT !.boardArr = b.arr, !.rows = b.rows, !.piece = p,
                  !.queueArr = n2, !.next = n2 + 1]

\* start(snapshot): the caller holds the snapshot it passes; drawn is the kind
\* the backfill spawn drew, if there was one
startFromRefs(r, snapshot, drawn, placed) ==
    LET v == callerSnapshotRefs(snapshot, r.next)
        r1 == [r EXCEPT !.next = v.next, !.held = r.held \cup SnapshotIds(v)]
        r2 == hydrateFromSnapshotRefs(r1, v)
    IN  IF drawn # <<>> THEN spawnNextPieceRefs(r2, drawn[1], placed) ELSE r2

\* start(): a new board, a new queue array, and the first spawn
startRefs(r, type, placed) ==
    LET b == createEmptyBoardRefs(r.next)
        r1 == [r EXCEPT !.boardArr = b.arr, !.rows = b.rows, !.piece = <<>>,
                        !.queueArr = r.next + 1 + height,
                        !.next = r.next + 2 + height]
    IN  spawnNextPieceRefs(r1, type, placed)

\* handleAction(name) or stepDown() on engine e: a call that locks goes
\* through lockCurrentPiece, clearLines and spawnNextPiece, a rotation that is
\* accepted replaces the matrix, every other call writes in place
callRefs(r, e, name, locked, drawn, placed) ==
    LET \* the board as lockCurrentPiece leaves it
        lockedBoard ==
            IF name = "hardDrop"
            THEN LET p == Piece(e)
                     landed == [p EXCEPT !.y = p.y + dropDistance(e, p.y, 0)]
                 IN  lockCurrentPiece([e EXCEPT !.currentPiece = <<landed>>]).board
            ELSE lockCurrentPiece(e).board
        \* rotatePiece on e accepts one of its kicks
        rotates ==
            /\ HasPiece(e)
            /\ \E k \in DOMAIN kicks :
                  canPlace(e.board, rotateMatrix(Piece(e).matrix),
                           Piece(e).x + kicks[k], Piece(e).y)
    IN  IF locked
        THEN spawnNextPieceRefs(clearLinesRefs(lockCurrentPieceRefs(r), lockedBoard),
                                drawn[1], placed)
        ELSE IF name = "rotate" /\ isRunning(e) /\ rotates
             THEN rotatePieceRefs(r, Len(Piece(e).matrix[1]))
             ELSE r

---------------------------------------------------------------------------
(* Snapshots handed to start(snapshot): the hand-built snapshots of the    *)
(* engine's tests and variations of them                                   *)

FullExcept(kind, gaps) == [c \in 1..width |-> IF (c - 1) \in gaps THEN Null ELSE kind]

CellsAt(kind, cols) == [c \in 1..width |-> IF (c - 1) \in cols THEN kind ELSE Null]

\* rows: a function from 0-based row numbers to rows; the other rows are empty
BoardOf(rows) ==
    [r \in 1..height |-> IF (r - 1) \in DOMAIN rows THEN rows[r - 1] ELSE emptyRow]

Snap(b, piece, q, sc, lc, over) ==
    [board |-> b, currentPiece |-> piece, queue |-> q, score |-> sc,
     linesCleared |-> lc, isGameOver |-> over]

PieceAt(type, matrix, x, y) == <<[type |-> type, matrix |-> matrix, x |-> x, y |-> y]>>

verticalI == << <<1>>, <<1>>, <<1>>, <<1>> >>

\* test 'clears a completed line and increases score', also at 9 lines cleared
SnapLineClear ==
    { Snap(BoardOf((height - 1) :> FullExcept("T", (width - 4)..(width - 1))),
           PieceAt("I", getMatrixForType("I"), width - 4, height - 3),
           <<"O", "J", "L", "S", "Z", "T", "I">>, sc, lc, FALSE)
        : <<sc, lc>> \in {<<0, 0>>, <<7, 9>>} }

\* test 'hard drop awards distance-based bonus and locks the piece'
SnapHardDrop ==
    { Snap(createEmptyBoard, PieceAt("I", verticalI, 0, 0),
           <<"J", "L", "O", "S", "Z", "T", "I">>, 0, 0, FALSE) }

\* a well one column wide at the right: rows 16, 18, 19 lack only column 9,
\* row 17 is either the same (4 rows to clear) or incomplete (3 rows to clear
\* around a row that stays), row 15 holds a marker
SnapWell ==
    { Snap(BoardOf((height - 1) :> FullExcept("J", {width - 1})
                   @@ (height - 2) :> FullExcept("L", {width - 1})
                   @@ (height - 3) :> r17
                   @@ (height - 4) :> FullExcept("S", {width - 1})
                   @@ (height - 5) :> CellsAt("Z", {2})),
           PieceAt("I", verticalI, width - 1, 2),
           <<"T", "O">>, 5, lc, FALSE)
        : <<r17, lc>> \in {<<FullExcept("O", {width - 1}), 0>>,
                           <<CellsAt("T", 0..4), 8>>} }

\* pieces next to walls and obstacles, for the rotation kicks
KickQueue == <<"S", "Z", "I", "J", "L", "O", "T", "I">>

SnapKick ==
    { Snap(BoardOf(5 :> CellsAt("Z", {1}) @@ 6 :> CellsAt("Z", {2})),
           PieceAt(pc[1], pc[2], pc[3], 5), KickQueue, 0, 3, FALSE)
        : pc \in { <<"I", verticalI, 0>>,
                   <<"I", verticalI, width - 2>>,
                   <<"I", verticalI, width - 1>>,
                   <<"T", rotateMatrix(getMatrixForType("T")), width - 2>> } }
    \cup
    { Snap(BoardOf(6 :> CellsAt("Z", {2, 6})),
           PieceAt("J", rotateMatrix(getMatrixForType("J")), x, 5),
           KickQueue, 0, 3, FALSE)
        : x \in {0, 4} }

\* column 4 filled to the top: the next piece that is not an I cannot spawn
TallBoard == [r \in 1..height |-> CellsAt("S", {4})]

SnapTall ==
    { Snap(TallBoard, PieceAt("O", getMatrixForType("O"), 0, height - 4),
           q, 12, 1, FALSE)
        : q \in { <<"L", "I", "T", "J", "S", "Z", "O">>, <<"I", "Z">>,
                  <<"I", "I", "T">> } }

\* saved after game over; a snapshot that names a piece although game over,
\* which hydrateFromSnapshot takes as it comes; snapshots without a piece,
\* whose piece start(snapshot) spawns; and a snapshot with a piece and an
\* empty queue
SnapOther ==
    { Snap(TallBoard, <<>>, <<"I", "T", "J", "S", "Z", "O">>, 40, 1, TRUE),
      Snap(BoardOf((height - 1) :> FullExcept("T", (width - 4)..(width - 1))),
           PieceAt("I", getMatrixForType("I"), width - 4, height - 2),
           <<"O", "J", "L", "S", "Z", "T", "I">>, 3, 0, TRUE),
      Snap(createEmptyBoard, <<>>, <<>>, 0, 0, FALSE),
      Snap(TallBoard, <<>>, <<"Z", "I", "T">>, 9, 2, FALSE),
      Snap(createEmptyBoard, PieceAt("S", getMatrixForType("S"), 3, 4), <<>>,
           0, 0, FALSE) }

Snapshots == SnapLineClear \cup SnapHardDrop \cup SnapWell \cup SnapKick
             \cup SnapTall \cup SnapOther

---------------------------------------------------------------------------
(* The scene: TetrixScene owns the engine and schedules the gravity tick *)

\* the fields after new TetrixScene(callbacks); onStateUpdate tells whether
\* the callbacks hold an onStateUpdate function (they need not: the
\* parameter defaults to {}), ticked records whether the last call of the
\* scene invoked engine.stepDown
NewScene(onStateUpdate) ==
    [onStateUpdate |-> onStateUpdate, ready |-> FALSE, dropTimer |-> 0,
     dropInterval |-> getDropInterval(NewEngine), needsDraw |-> TRUE,
     ticked |-> FALSE]

Held(sc, e) == [scene |-> [sc EXCEPT !.ticked = FALSE], engine |-> e]

\* handleResize, the handler of the 'resize' event: the cell size and the
\* origin of the board (not modelled) are recomputed, needsDraw = true
handleResize(sc, e) == Held([sc EXCEPT !.needsDraw = TRUE], e)

\* create(): graphics, resize handler registered and called, keyboard, ready
create(sc, e) == Held([handleResize(sc, e).scene EXCEPT !.ready = TRUE], e)

\* draw(): getRenderState() for the callback; painted, and needsDraw cleared,
\* once create() has made the graphics object
draw(sc, e, rnd) ==
    [scene |-> [sc EXCEPT !.needsDraw = IF sc.ready THEN FALSE ELSE @],
     engine |-> getRenderState(e, rnd).engine]

resetDropTimer(sc, e) ==
    [sc EXCEPT !.dropInterval = getDropInterval(e), !.dropTimer = 0]

\* Faulty variant of update: the `if (this.engine.isRunning())` test is
\* missing, time accumulates and the tick is made whatever the run state.
updateUngated(sc, e, delta, rnd) ==
    IF ~sc.ready THEN Held(sc, e)
    ELSE LET timer == sc.dropTimer + delta
             tick == timer >= sc.dropInterval
             e1 == IF tick THEN stepDown(e, FALSE, rnd) ELSE e
             sc1 == [sc EXCEPT
                        !.dropTimer = IF tick THEN 0 ELSE timer,
                        !.dropInterval = IF tick THEN getDropInterval(e1) ELSE @,
                        !.needsDraw = tick \/ @,
                        !.ticked = tick]
         IN  IF sc1.needsDraw THEN draw(sc1, e1, rnd) ELSE [scene |-> sc1, engine |-> e1]

\* update(time, delta): one frame
update(sc, e, delta, rnd) ==
    IF ~sc.ready THEN Held(sc, e)
    ELSE LET runs == isRunning(e)
             timer == IF runs THEN sc.dropTimer + delta ELSE sc.dropTimer
             tick == runs /\ timer >= sc.dropInterval
             e1 == IF tick THEN stepDown(e, FALSE, rnd) ELSE e
             sc1 == [sc EXCEPT
                        !.dropTimer = IF tick THEN 0 ELSE timer,
                        !.dropInterval = IF tick THEN getDropInterval(e1) ELSE @,
                        !.needsDraw = tick \/ @,
                        !.ticked = tick]
         IN  IF sc1.needsDraw THEN draw(sc1, e1, rnd) ELSE [scene |-> sc1, engine |-> e1]

\* startNewGame(snapshot?): started holds the engine after engine.start;
\* engine.getRenderState() is evaluated only as the argument of the optional
\* call `this.callbacks.onStateUpdate?.(...)`
startNewGame(sc, started, rnd) ==
    Held([resetDropTimer(sc, started) EXCEPT !.needsDraw = TRUE],
         IF sc.onStateUpdate THEN getRenderState(started, rnd).engine ELSE started)

pauseGame(sc, e) == Held([sc EXCEPT !.needsDraw = TRUE], pause(e))

resumeGame(sc, e) ==
    Held([resetDropTimer(sc, resume(e)) EXCEPT !.needsDraw = TRUE], resume(e))

\* handleAction(action) of the scene, also what a key press calls
sceneHandleAction(sc, e, action, rnd) ==
    Held([sc EXCEPT !.needsDraw = TRUE], handleAction(e, action, rnd))

---------------------------------------------------------------------------
(* The state machine: one action per public call *)

NoProbe == [matrix |-> <<>>, x |-> 0, y |-> 0, result |-> FALSE]

Called(name, locked, spawn) == [name |-> name, locked |-> locked, spawn |-> spawn]

\* the state after new TetrixScene(callbacks), which builds its engine
Constructed(sc) ==
    /\ board = NewEngine.board
    /\ queue = NewEngine.queue
    /\ currentPiece = NewEngine.currentPiece
    /\ running = NewEngine.running
    /\ score = NewEngine.score
    /\ linesCleared = NewEngine.linesCleared
    /\ gameOver = NewEngine.gameOver
    /\ op = Called("new", FALSE, <<>>)
    /\ nOps = 0
    /\ nLocks = 0
    /\ session = "none"
    /\ spawned = <<>>
    /\ probe = NoProbe
    /\ refs = NewRefs
    /\ scene = sc

\* the scene as main.ts builds it, with both callbacks
Init == Constructed(NewScene(TRUE))

Becomes(e) ==
    /\ board' = e.board
    /\ queue' = e.queue
    /\ currentPiece' = e.currentPiece
    /\ running' = e.running
    /\ score' = e.score
    /\ linesCleared' = e.linesCleared
    /\ gameOver' = e.gameOver

\* the vectors of draws an operation on queue q can consume: one per outcome
\* when q is short enough for a refill, a single unused one otherwise
DrawsFor(q) == IF Len(q) < Len(TETROMINO_ORDER) THEN Draws ELSE {DrawsOf(0)}

\* the kind spawnNextPiece draws when the queue is q
nextKind(q, rnd) == Head(ensureQueue([queue |-> q], rnd).queue)

\* stepDown on e takes its else branch: lock, clear, spawn
StepLocks(e) ==
    HasPiece(e) /\ ~canPlace(e.board, Piece(e).matrix, Piece(e).x, Piece(e).y + 1)

\* handleAction(action) on e locks the active piece
ActionLocks(e, action) ==
    /\ isRunning(e)
    /\ HasPiece(e)
    /\ \/ action = "hardDrop"
       \/ action = "softDrop" /\ StepLocks(e)

\* the call's record in the history
Record(name, locks, rnd) ==
    /\ op' = Called(name, locks, IF locks THEN <<nextKind(queue, rnd)>> ELSE <<>>)
    /\ nOps' = nOps + 1
    /\ nLocks' = IF locks THEN nLocks + 1 ELSE nLocks
    /\ spawned' = IF locks THEN Append(spawned, nextKind(queue, rnd)) ELSE spawned

DoStart ==
    /\ \E rnd \in Draws :
        /\ Becomes(start(Eng, rnd))
        /\ op' = Called("start", FALSE, <<nextKind(<<>>, rnd)>>)
        /\ spawned' = <<nextKind(<<>>, rnd)>>
    /\ nOps' = nOps + 1
    /\ session' = "fresh"
    /\ UNCHANGED <<nLocks, probe>>

DoStartSnapshot ==
    /\ \E snapshot \in Snapshots :
        \E rnd \in DrawsFor(snapshot.queue) :
            LET spawns == snapshot.currentPiece = <<>> /\ ~snapshot.isGameOver
                drawn == IF spawns THEN <<nextKind(snapshot.queue, rnd)>> ELSE <<>>
            IN  /\ Becomes(startFrom(Eng, snapshot, rnd))
                /\ op' = Called("startSnapshot", FALSE, drawn)
                /\ spawned' = drawn
    /\ nOps' = nOps + 1
    /\ session' = "snapshot"
    /\ UNCHANGED <<nLocks, probe>>

DoPause ==
    /\ Becomes(pause(Eng))
    /\ Record("pause", FALSE, DrawsOf(0))
    /\ UNCHANGED <<session, probe>>

DoResume ==
    /\ Becomes(resume(Eng))
    /\ Record("resume", FALSE, DrawsOf(0))
    /\ UNCHANGED <<session, probe>>

\* stepDown(manual = false) called from outside the engine: the gravity tick
\* stepDown(), or stepDown(true)
DoStepDown ==
    /\ \E manual \in BOOLEAN :
        \E rnd \in DrawsFor(queue) :
            /\ Becomes(stepDown(Eng, manual, rnd))
            /\ Record("stepDown", StepLocks(Eng), rnd)
    /\ UNCHANGED <<session, probe>>

DoHandleAction ==
    /\ \E action \in InputAction :
        \E rnd \in DrawsFor(queue) :
            /\ Becomes(handleAction(Eng, action, rnd))
            /\ Record(action, ActionLocks(Eng, action), rnd)
    /\ UNCHANGED <<session, probe>>

DoGetSnapshot ==
    /\ Record("getSnapshot", FALSE, DrawsOf(0))
    /\ UNCHANGED <<engineVars, session, probe>>

DoGetRenderState ==
    /\ \E rnd \in DrawsFor(queue) : Becomes(getRenderState(Eng, rnd).engine)
    /\ Record("getRenderState", FALSE, DrawsOf(0))
    /\ UNCHANGED <<session, probe>>

---------------------------------------------------------------------------
(* Spec: any MaxOps public calls on a constructed engine *)

Start == nOps < MaxOps /\ DoStart /\ UNCHANGED <<refs, scene>>
StartSnapshot == nOps < MaxOps /\ DoStartSnapshot /\ UNCHANGED <<refs, scene>>
Pause == nOps < MaxOps /\ DoPause /\ UNCHANGED <<refs, scene>>
Resume == nOps < MaxOps /\ DoResume /\ UNCHANGED <<refs, scene>>
StepDown == nOps < MaxOps /\ DoStepDown /\ UNCHANGED <<refs, scene>>
HandleAction == nOps < MaxOps /\ DoHandleAction /\ UNCHANGED <<refs, scene>>
GetSnapshot == nOps < MaxOps /\ DoGetSnapshot /\ UNCHANGED <<refs, scene>>
GetRenderState == nOps < MaxOps /\ DoGetRenderState /\ UNCHANGED <<refs, scene>>

Next ==
    \/ Start
    \/ StartSnapshot
    \/ Pause
    \/ Resume
    \/ StepDown
    \/ HandleAction
    \/ GetSnapshot
    \/ GetRenderState

Spec == Init /\ [][Next]_vars

---------------------------------------------------------------------------
(* SpecSession: one session begun by start() without a snapshot, followed  *)
(* in depth: up to MaxLocks locks, with up to MaxDetours calls that do     *)
(* not lock a piece anywhere between them                                  *)

SessionBudget ==
    /\ nLocks' <= MaxLocks
    /\ (nOps' - 1) - nLocks' <= MaxDetours

SessionStart == nOps = 0 /\ DoStart /\ UNCHANGED <<refs, scene>>
SessionPause == session = "fresh" /\ DoPause /\ SessionBudget /\ UNCHANGED <<refs, scene>>
SessionResume == session = "fresh" /\ DoResume /\ SessionBudget /\ UNCHANGED <<refs, scene>>
SessionStepDown == session = "fresh" /\ DoStepDown /\ SessionBudget /\ UNCHANGED <<refs, scene>>
SessionHandleAction == session = "fresh" /\ DoHandleAction /\ SessionBudget /\ UNCHANGED <<refs, scene>>
SessionGetSnapshot == session = "fresh" /\ DoGetSnapshot /\ SessionBudget /\ UNCHANGED <<refs, scene>>
SessionGetRenderState == session = "fresh" /\ DoGetRenderState /\ SessionBudget /\ UNCHANGED <<refs, scene>>

NextSession ==
    \/ SessionStart
    \/ SessionPause
    \/ SessionResume
    \/ SessionStepDown
    \/ SessionHandleAction
    \/ SessionGetSnapshot
    \/ SessionGetRenderState

SpecSession == Init /\ [][NextSession]_vars

---------------------------------------------------------------------------
(* SpecPlay: one session begun by start() without a snapshot and played:   *)
(* each piece is rotated, moved away from its spawn column and dropped, or *)
(* left to the gravity tick, until MaxPlayLocks pieces are locked; or the  *)
(* pieces are stacked beside an empty last column until an I lowered into  *)
(* that column completes two, three or four rows at once                   *)

\* Math.random outcome of the played session: the bag J I L T O S Z, whose
\* first three pieces laid side by side fill the bottom row
PlayDraws == {DrawsOf(22)}

\* the column at which the active piece was spawned
Home == spawnX(getMatrixForType(Piece(Eng).type))

Playing ==
    /\ session = "fresh"
    /\ isRunning(Eng)
    /\ HasPiece(Eng)
    /\ nLocks < MaxPlayLocks
    /\ \E rnd \in PlayDraws :     \* the first bag of the session is this shuffle
          SubSeq(spawned \o queue, 1, Len(TETROMINO_ORDER)) = shuffle(TETROMINO_ORDER, rnd)

\* Sessions that stack the pieces in columns 0 to 8 and end with an I in
\* column 9.  bags: the Math.random outcomes of the first two shuffles;
\* pieces: for each piece in turn, how often it is rotated, the column it is
\* moved to, and whether it is lowered by softDrop or dropped by hardDrop.
\*   O J T L S I      : the I completes the two bottom rows
\*   O L I T J Z S I  : the I completes the three bottom rows
\*   O J L Z S T I T J I : the I completes the four bottom rows
Stackings ==
    { [bags   |-> << <<1, 0, 2, 4, 0, 6>>, <<1, 2, 3, 4, 5, 6>> >>,
       pieces |-> << [turns |-> 0, x |-> 0, slow |-> FALSE],
                     [turns |-> 0, x |-> 2, slow |-> FALSE],
                     [turns |-> 0, x |-> 5, slow |-> FALSE],
                     [turns |-> 0, x |-> 3, slow |-> TRUE],
                     [turns |-> 1, x |-> 7, slow |-> FALSE],
                     [turns |-> 1, x |-> 9, slow |-> TRUE] >>],
      [bags   |-> << <<0, 0, 1, 1, 4, 4>>, <<1, 2, 3, 4, 5, 6>> >>,
       pieces |-> << [turns |-> 0, x |-> 6, slow |-> FALSE],
                     [turns |-> 3, x |-> 7, slow |-> FALSE],
                     [turns |-> 0, x |-> 1, slow |-> FALSE],
                     [turns |-> 1, x |-> 0, slow |-> FALSE],
                     [turns |-> 1, x |-> 5, slow |-> FALSE],
                     [turns |-> 0, x |-> 1, slow |-> FALSE],
                     [turns |-> 1, x |-> 3, slow |-> FALSE],
                     [turns |-> 1, x |-> 9, slow |-> TRUE] >>],
      [bags   |-> << <<1, 2, 0, 4, 5, 0>>, <<1, 0, 2, 3, 4, 6>> >>,
       pieces |-> << [turns |-> 0, x |-> 2, slow |-> FALSE],
                     [turns |-> 1, x |-> 1, slow |-> FALSE],
                     [turns |-> 0, x |-> 6, slow |-> FALSE],
                     [turns |-> 1, x |-> 7, slow |-> FALSE],
                     [turns |-> 0, x |-> 4, slow |-> FALSE],
                     [turns |-> 1, x |-> 4, slow |-> FALSE],
                     [turns |-> 1, x |-> 0, slow |-> FALSE],
                     [turns |-> 2, x |-> 5, slow |-> FALSE],
                     [turns |-> 2, x |-> 1, slow |-> TRUE],
                     [turns |-> 1, x |-> 9, slow |-> TRUE] >>] }

\* the session follows this stacking and has pieces of it left to place
Stacking(s) ==
    /\ session = "fresh"
    /\ isRunning(Eng)
    /\ HasPiece(Eng)
    /\ SubSeq(spawned \o queue, 1, Len(TETROMINO_ORDER)) = shuffle(TETROMINO_ORDER, s.bags[1])
    /\ nLocks < Len(s.pieces)

\* the call handleAction(action), taken when it changes the engine
PlayAction(action, rnd) ==
    /\ handleAction(Eng, action, rnd) # Eng
    /\ Becomes(handleAction(Eng, action, rnd))
    /\ Record(action, ActionLocks(Eng, action), rnd)
    /\ UNCHANGED <<session, probe, refs, scene>>

PlayStart ==
    /\ nOps = 0
    /\ \E rnd \in PlayDraws \cup {s.bags[1] : s \in Stackings} :
          /\ Becomes(start(Eng, rnd))
          /\ op' = Called("start", FALSE, <<nextKind(<<>>, rnd)>>)
          /\ spawned' = <<nextKind(<<>>, rnd)>>
    /\ nOps' = nOps + 1
    /\ session' = "fresh"
    /\ UNCHANGED <<nLocks, probe, refs, scene>>

PlayMoveLeft ==
    /\ Playing
    /\ Piece(Eng).y = -1
    /\ Piece(Eng).x <= Home
    /\ Home - Piece(Eng).x < MaxShift
    /\ PlayAction("moveLeft", DrawsOf(0))

PlayMoveRight ==
    /\ Playing
    /\ Piece(Eng).y = -1
    /\ Piece(Eng).x >= Home
    /\ Piece(Eng).x - Home < MaxShift
    /\ PlayAction("moveRight", DrawsOf(0))

PlayRotate ==
    /\ Playing
    /\ nLocks < MaxTurned
    /\ Piece(Eng).y = -1
    /\ rotateMatrix(Piece(Eng).matrix) # getMatrixForType(Piece(Eng).type)
    /\ PlayAction("rotate", DrawsOf(0))

PlayHardDrop ==
    /\ Playing
    /\ Piece(Eng).y = -1
    /\ PlayAction("hardDrop", DrawsOf(0))

\* the gravity tick on a piece the player has left alone: it is as it was
\* spawned, but for the rows it has fallen
PlayStepDown ==
    /\ Playing
    /\ nLocks < MaxTurned
    /\ Piece(Eng).x = Home
    /\ Piece(Eng).matrix = getMatrixForType(Piece(Eng).type)
    /\ Becomes(stepDown(Eng, FALSE, DrawsOf(0)))
    /\ Record("stepDown", StepLocks(Eng), DrawsOf(0))
    /\ UNCHANGED <<session, probe, refs, scene>>

\* the next key of a stacking: rotate until the piece is turned as wanted,
\* then move it to its column, then lower or drop it; the second bag is
\* shuffled at the spawn that follows the first lock
PlayStacking ==
    \E s \in Stackings :
        /\ Stacking(s)
        /\ LET to == s.pieces[nLocks + 1]
               action ==
                   IF Piece(Eng).matrix # rotateTimes(getMatrixForType(Piece(Eng).type), to.turns)
                   THEN "rotate"
                   ELSE IF Piece(Eng).x > to.x THEN "moveLeft"
                   ELSE IF Piece(Eng).x < to.x THEN "moveRight"
                   ELSE IF to.slow THEN "softDrop"
                   ELSE "hardDrop"
           IN  PlayAction(action, IF nLocks = 0 THEN s.bags[2] ELSE DrawsOf(0))

\* a key that the stack or the wall refuses, pressed once after a softDrop
\* on a piece that is lowered row by row: the engine stays as it is
PlayBlocked ==
    \E s \in Stackings : \E action \in {"moveLeft", "moveRight", "rotate"} :
        /\ Stacking(s)
        /\ s.pieces[nLocks + 1].slow
        /\ op.name = "softDrop"
        /\ ~op.locked
        /\ handleAction(Eng, action, DrawsOf(0)) = Eng
        /\ Becomes(Eng)
        /\ Record(action, FALSE, DrawsOf(0))
        /\ UNCHANGED <<session, probe, refs, scene>>

NextPlay ==
    \/ PlayStart
    \/ PlayStacking
    \/ PlayBlocked
    \/ PlayMoveLeft
    \/ PlayMoveRight
    \/ PlayRotate
    \/ PlayHardDrop
    \/ PlayStepDown

SpecPlay == Init /\ [][NextPlay]_vars

---------------------------------------------------------------------------
(* SpecScene: MaxSceneOps calls on a TetrixScene: create, frames of two    *)
(* lengths, startNewGame without a snapshot and with the snapshots of the  *)
(* tall board, pauseGame, resumeGame and handleAction                      *)

\* milliseconds a frame may have taken
Deltas == {400, 1000}

\* the call's record in the history, and the fields it leaves
SceneCall(name, res, kinds) ==
    /\ Becomes(res.engine)
    /\ scene' = res.scene
    /\ op' = Called(name, kinds # <<>>, kinds)
    /\ nOps' = nOps + 1
    /\ nLocks' = nLocks + Len(kinds)
    /\ spawned' = spawned \o kinds
    /\ UNCHANGED <<probe, refs>>

\* the scene built with an onStateUpdate callback or without one
InitScene == \E onStateUpdate \in BOOLEAN : Constructed(NewScene(onStateUpdate))

SceneCreate ==
    /\ nOps < MaxSceneOps
    /\ ~scene.ready
    /\ SceneCall("create", create(scene, Eng), <<>>)
    /\ UNCHANGED session

\* a 'resize' event of the scale manager, listened to since create()
SceneResize ==
    /\ nOps < MaxSceneOps
    /\ scene.ready
    /\ SceneCall("handleResize", handleResize(scene, Eng), <<>>)
    /\ UNCHANGED session

SceneUpdate ==
    /\ nOps < MaxSceneOps
    /\ \E delta \in Deltas :
          \E res \in {update(scene, Eng, delta, DrawsOf(0))} :
              SceneCall("update", res,
                        IF res.scene.ticked /\ StepLocks(Eng)
                        THEN <<nextKind(queue, DrawsOf(0))>> ELSE <<>>)
    /\ UNCHANGED session

SceneStartNewGame ==
    /\ nOps < MaxSceneOps
    /\ \E rnd \in PlayDraws :
          /\ Becomes(startNewGame(scene, start(Eng, rnd), DrawsOf(0)).engine)
          /\ scene' = startNewGame(scene, start(Eng, rnd), DrawsOf(0)).scene
          /\ op' = Called("startNewGame", FALSE, <<nextKind(<<>>, rnd)>>)
          /\ spawned' = <<nextKind(<<>>, rnd)>>
    /\ nOps' = nOps + 1
    /\ session' = "fresh"
    /\ UNCHANGED <<nLocks, probe, refs>>

SceneStartSnapshot ==
    /\ nOps < MaxSceneOps
    /\ \E snapshot \in SnapTall :
          \E started \in {startFrom(Eng, snapshot, DrawsOf(0))} :
              /\ Becomes(startNewGame(scene, started, DrawsOf(0)).engine)
              /\ scene' = startNewGame(scene, started, DrawsOf(0)).scene
    /\ op' = Called("startNewGame", FALSE, <<>>)
    /\ spawned' = <<>>
    /\ nOps' = nOps + 1
    /\ session' = "snapshot"
    /\ UNCHANGED <<nLocks, probe, refs>>

ScenePauseGame ==
    /\ nOps < MaxSceneOps
    /\ SceneCall("pauseGame", pauseGame(scene, Eng), <<>>)
    /\ UNCHANGED session

SceneResumeGame ==
    /\ nOps < MaxSceneOps
    /\ SceneCall("resumeGame", resumeGame(scene, Eng), <<>>)
    /\ UNCHANGED session

SceneHandleAction ==
    /\ nOps < MaxSceneOps
    /\ \E action \in InputAction :
          SceneCall(action, sceneHandleAction(scene, Eng, action, DrawsOf(0)),
                    IF ActionLocks(Eng, action)
                    THEN <<nextKind(queue, DrawsOf(0))>> ELSE <<>>)
    /\ UNCHANGED session

NextScene ==
    \/ SceneCreate
    \/ SceneResize
    \/ SceneUpdate
    \/ SceneStartNewGame
    \/ SceneStartSnapshot
    \/ ScenePauseGame
    \/ SceneResumeGame
    \/ SceneHandleAction

SpecScene == InitScene /\ [][NextScene]_vars

---------------------------------------------------------------------------
(* SpecCanPlace: canPlace queried directly on the boards of the snapshots  *)

ProbeStart == nOps = 0 /\ DoStartSnapshot /\ UNCHANGED <<refs, scene>>

\* one query per behaviour, on the board the snapshot gave, with one of the
\* four rotations of the seven canonical shapes
ProbeCanPlace ==
    /\ session # "none"
    /\ probe = NoProbe
    /\ \E matrix \in {rotateTimes(getMatrixForType(t), n) : t \in TetrominoType, n \in 0..3} :
        \E x \in (0 - ProbeMargin)..(width - 1 + ProbeMargin) :
            \E y \in (0 - ProbeMargin - 2)..(height - 1 + ProbeMargin) :
                probe' = [matrix |-> matrix, x |-> x, y |-> y,
                          result |-> canPlace(board, matrix, x, y)]
    /\ UNCHANGED <<engineVars, op, nOps, nLocks, session, spawned, refs, scene>>

NextCanPlace == ProbeStart \/ ProbeCanPlace

SpecCanPlace == Init /\ [][NextCanPlace]_vars

---------------------------------------------------------------------------
(* SpecAlias: MaxAliasOps calls on a constructed engine, the references     *)
(* followed through them, with a caller that writes into every array and   *)
(* object it holds: the snapshots it passed to start, the values the reads *)
(* returned, the matrices getMatrixForType returned                        *)

AliasStart ==
    /\ nOps < MaxAliasOps
    /\ DoStart
    /\ UNCHANGED scene
    /\ refs' = startRefs(refs, op'.spawn[1], currentPiece' # <<>>)

AliasStartSnapshot ==
    /\ nOps < MaxAliasOps
    /\ \E snapshot \in Snapshots :
        \E rnd \in DrawsFor(snapshot.queue) :
            LET spawns == snapshot.currentPiece = <<>> /\ ~snapshot.isGameOver
                drawn == IF spawns THEN <<nextKind(snapshot.queue, rnd)>> ELSE <<>>
            IN  /\ Becomes(startFrom(Eng, snapshot, rnd))
                /\ op' = Called("startSnapshot", FALSE, drawn)
                /\ spawned' = drawn
                /\ refs' = startFromRefs(refs, snapshot, drawn, currentPiece' # <<>>)
    /\ nOps' = nOps + 1
    /\ session' = "snapshot"
    /\ UNCHANGED <<nLocks, probe, scene>>

AliasPause == nOps < MaxAliasOps /\ DoPause /\ UNCHANGED <<refs, scene>>

AliasResume == nOps < MaxAliasOps /\ DoResume /\ UNCHANGED <<refs, scene>>

AliasStepDown ==
    /\ nOps < MaxAliasOps
    /\ DoStepDown
    /\ UNCHANGED scene
    /\ refs' = callRefs(refs, Eng, "stepDown", op'.locked, op'.spawn,
                        currentPiece' # <<>>)

AliasHandleAction ==
    /\ nOps < MaxAliasOps
    /\ DoHandleAction
    /\ UNCHANGED scene
    /\ refs' = callRefs(refs, Eng, op'.name, op'.locked, op'.spawn,
                        currentPiece' # <<>>)

AliasGetSnapshot ==
    /\ nOps < MaxAliasOps
    /\ DoGetSnapshot
    /\ UNCHANGED scene
    /\ refs' = returnRefs(refs)

AliasGetRenderState ==
    /\ nOps < MaxAliasOps
    /\ DoGetRenderState
    /\ UNCHANGED scene
    /\ refs' = returnRefs(refs)

\* the caller calls the exported getMatrixForType and keeps the matrix
CallerGetsMatrix ==
    /\ nOps < MaxAliasOps
    /\ \E type \in TetrominoType :
        LET m == getMatrixRefs(type, refs.next)
        IN  refs' = [refs EXCEPT
                        !.next = refs.next + 1 + Len(TETROMINO_SHAPES[type]),
                        !.held = refs.held \cup {m.matrix} \cup IdsIn(m.mrows)]
    /\ Record("getMatrixForType", FALSE, DrawsOf(0))
    /\ UNCHANGED <<engineVars, session, probe, scene>>

\* the caller writes into everything it holds
CallerWrites ==
    /\ refs.dirty # refs.held
    /\ refs' = [refs EXCEPT !.dirty = refs.held]
    /\ UNCHANGED <<engineVars, op, nOps, nLocks, session, spawned, probe, scene>>

NextAlias ==
    \/ AliasStart
    \/ AliasStartSnapshot
    \/ AliasPause
    \/ AliasResume
    \/ AliasStepDown
    \/ AliasHandleAction
    \/ AliasGetSnapshot
    \/ AliasGetRenderState
    \/ CallerGetsMatrix
    \/ CallerWrites

SpecAlias == Init /\ [][NextAlias]_vars

---------------------------------------------------------------------------
(* Properties *)

\* some filled cell of the matrix placed at (x, y) leaves the grid sideways or
\* through the bottom, or lies on an occupied cell of the grid
Rejected(b, matrix, x, y) ==
    \E row \in 0..(Len(matrix) - 1) :
        \E col \in 0..(Len(matrix[1]) - 1) :
            /\ matrix[row + 1][col + 1] = 1
            /\ \/ x + col < 0
               \/ x + col > width - 1
               \/ y + row > height - 1
               \/ /\ y + row \in 0..(height - 1)
                  /\ x + col \in 0..(width - 1)
                  /\ b[y + row + 1][x + col + 1] \in TetrominoType

\* every filled cell of the matrix placed at (x, y) is above the grid, within
\* the grid's columns
AllAbove(matrix, x, y) ==
    /\ y + Len(matrix) - 1 < 0
    /\ x >= 0
    /\ x + Len(matrix[1]) - 1 < width

(* C1: canPlace(shape, x, y) returns false if and only if some filled cell   *)
(* of the shape has its column outside [0, W), or its row >= H, or lies on a *)
(* non-empty cell of a row in [0, H); a cell in a row < 0 never causes a     *)
(* rejection by its row: a shape entirely above the grid, within the         *)
(* columns, is accepted whatever the board holds.                            *)
C1_CanPlaceIff ==
    probe # NoProbe =>
        /\ (probe.result = FALSE) <=> Rejected(board, probe.matrix, probe.x, probe.y)
        /\ AllAbove(probe.matrix, probe.x, probe.y) => probe.result = TRUE

\* a placement accepted on the board whose column 4 is filled to the top: the
\* shape has a cell above the grid in column 4 and cells inside the grid
C1_Witness ==
    /\ probe # NoProbe
    /\ probe.result = TRUE
    /\ board = TallBoard
    /\ probe.y < 0
    /\ probe.y + Len(probe.matrix) - 1 >= 0
    /\ 4 - probe.x \in 0..(Len(probe.matrix[1]) - 1)
    /\ probe.matrix[1][4 - probe.x + 1] = 1

---------------------------------------------------------------------------
(* What a call that locks starts from: the engine with the piece where it  *)
(* is locked, and the board right after lockCurrentPiece                   *)

\* rows a hardDrop moves the active piece
Travel == IF HasPiece(Eng) THEN dropDistance(Eng, Piece(Eng).y, 0) ELSE 0

\* the active piece where the call named nm locks it
Landed(nm) ==
    IF nm = "hardDrop"
    THEN [Eng EXCEPT !.currentPiece = <<[Piece(Eng) EXCEPT !.y = @ + Travel]>>]
    ELSE Eng

LockedBoard(nm) == lockCurrentPiece(Landed(nm)).board

Incomplete(line) == \E c \in 1..Len(line) : line[c] = Null

\* the incomplete rows of a board, top to bottom
KeptRows(b) == SelectSeq(b, Incomplete)

(* C2: when a lock leaves k complete rows in the grid, the call removes      *)
(* exactly those k rows, adjacent ones included, keeps every incomplete row  *)
(* with its content, in order, shifted down, and puts k empty rows on top;   *)
(* when the bottom row is the only complete one, linesCleared grows by 1,    *)
(* score grows and the bottom row becomes the former row above it.           *)
C2_Step ==
    op'.locked =>
        LET locked == LockedBoard(op'.name)
            kept == KeptRows(locked)
            k == height - Len(kept)
        IN  /\ board' = [r \in 1..k |-> emptyRow] \o kept
            /\ (k = 1 /\ ~Incomplete(locked[height])) =>
                  /\ linesCleared' = linesCleared + 1
                  /\ score' > score
                  /\ board'[height] = locked[height - 1]

\* C2: every call that locks leaves the board of the locked rows with the
\* complete ones removed and as many empty rows on top (C2_Step on every step)
C2_LineClear == [][C2_Step]_vars

\* the lock of the vertical I in the well cleared rows 16, 18 and 19: row 17,
\* with its new I cell, is now the bottom row, and the marker row follows it
C2_Witness ==
    /\ op.locked
    /\ board[height] = [CellsAt("T", 0..4) EXCEPT ![width] = "I"]
    /\ board[height - 1] = CellsAt("Z", {2})
    /\ board[height - 2] = emptyRow
    /\ linesCleared = 11

\* number of complete rows of a board
CompleteRows(b) == Cardinality({r \in 1..height : ~Incomplete(b[r])})

\* points the claim's table gives for n rows cleared at once
TablePoints(n) == <<40, 100, 300, 1200>>[n]

\* the hardDrop bonus of the call named nm
DropBonus(nm) == IF nm = "hardDrop" THEN 2 * Travel ELSE 0

(* C3: when a lock clears n > 0 rows (n up to 4, the length of the table),   *)
(* linesCleared grows by exactly n and score by exactly SCORE_TABLE[n] *     *)
(* level on top of the drop bonus, with level = floor(linesCleared / 10) + 1 *)
(* taken from linesCleared after the increase; when n = 0 the clear step     *)
(* changes neither linesCleared nor score.                                   *)
C3_Step ==
    op'.locked =>
        LET n == CompleteRows(LockedBoard(op'.name))
            bonus == DropBonus(op'.name)
        IN  /\ n = 0 => linesCleared' = linesCleared /\ score' = score + bonus
            /\ n \in 1..4 =>
                  /\ linesCleared' = linesCleared + n
                  /\ score' = score + bonus
                              + TablePoints(n) * ((linesCleared' \div 10) + 1)

\* C3: every call that locks adds the rows it clears to linesCleared and pays
\* SCORE_TABLE[n] * level at the new level (C3_Step on every step)
C3_ClearScore == [][C3_Step]_vars

\* the third stepDown of the line-clear test, begun at 9 lines and 7 points:
\* the tenth line is paid at level 2
C3_Witness ==
    /\ op.name = "stepDown"
    /\ op.locked
    /\ linesCleared = 10
    /\ score = 7 + 40 * 2

---------------------------------------------------------------------------
\* the largest distance the active piece can fall, every position on the way
\* being free
RECURSIVE FallFrom(_)
FallFrom(d) ==
    IF canPlace(board, Piece(Eng).matrix, Piece(Eng).x, Piece(Eng).y + d + 1)
    THEN FallFrom(d + 1)
    ELSE d

MaxFall == FallFrom(0)

\* the piece of kind type at its spawn position
SpawnOf(type) ==
    [type |-> type, matrix |-> TETROMINO_SHAPES[type],
     x |-> (width - Len(TETROMINO_SHAPES[type][1])) \div 2, y |-> -1]

\* what handleAction('hardDrop') does before it spawns: the piece is moved
\* down MaxFall rows, 2 * MaxFall is added to the score, the piece is locked
\* there and the lines are cleared
HardDropLocks ==
    LET p == Piece(Eng)
        landed == [Eng EXCEPT !.currentPiece = <<[p EXCEPT !.y = p.y + MaxFall]>>,
                              !.score = score + 2 * MaxFall]
        cleared == clearLines(lockCurrentPiece(landed))
    IN  /\ board' = cleared.board
        /\ score' = cleared.score
        /\ linesCleared' = cleared.linesCleared
        /\ \E rnd \in Draws : queue' = Tail(ensureQueue(Eng, rnd).queue)
        /\ Len(queue) > 0

(* C4, as stated: handleAction('hardDrop') on a running engine moves the     *)
(* piece down by the maximal free distance d, adds 2 * d to the score, locks *)
(* the piece there, clears the lines, and the former head of the queue is    *)
(* the new active piece.                                                     *)
C4_OriginalStep ==
    (op'.name = "hardDrop" /\ isRunning(Eng) /\ HasPiece(Eng)) =>
        /\ HardDropLocks
        /\ currentPiece' = <<SpawnOf(Head(queue))>>

\* C4, as stated: every hardDrop of a running engine drops, pays, locks, clears
\* and makes the former head of the queue the active piece
C4_Original == [][C4_OriginalStep]_vars

(* C4, amended: ... and the former head of the queue is taken from the       *)
(* queue; it is the new active piece when its spawn position is free on the  *)
(* new board, and otherwise there is no active piece and the game is over.   *)
C4_Step ==
    (op'.name = "hardDrop" /\ isRunning(Eng) /\ HasPiece(Eng)) =>
        /\ HardDropLocks
        /\ LET next == SpawnOf(Head(queue))
           IN  IF ~Rejected(board', next.matrix, next.x, next.y)
               THEN currentPiece' = <<next>> /\ gameOver' = gameOver
                    /\ running' = running
               ELSE currentPiece' = <<>> /\ gameOver' /\ ~running'

\* C4, amended: every hardDrop of a running engine drops, pays, locks, clears
\* and spawns the former head of the queue or, if it cannot, ends the game
C4_HardDrop == [][C4_Step]_vars

\* the hard drop of the test: the vertical I fell 16 rows for 32 points, fills
\* the bottom four rows of column 0, and the J that headed the queue is active
C4_Witness ==
    /\ op.name = "hardDrop"
    /\ op.locked
    /\ score = 32
    /\ \A r \in (height - 3)..height : board[r][1] = "I"
    /\ board[height - 4][1] = Null
    /\ currentPiece = <<SpawnOf("J")>>
    /\ Head(queue) = "L"

---------------------------------------------------------------------------
\* res is the 90-degree clockwise rotation of src: res[c][R-1-r] = src[r][c]
Clockwise(src, res) ==
    LET R == Len(src)
        C == Len(src[1])
    IN  /\ Len(res) = C
        /\ \A c \in 0..(C - 1) :
              /\ Len(res[c + 1]) = R
              /\ \A r \in 0..(R - 1) : res[c + 1][R - 1 - r + 1] = src[r + 1][c + 1]

KickOrder == <<0, -1, 1, -2, 2>>

(* C5: handleAction('rotate') replaces the active piece's matrix by its      *)
(* clockwise rotation, at the same y and at x + k for the first offset k in  *)
(* the order 0, -1, +1, -2, +2 whose placement is collision-free; when none  *)
(* of the five is, matrix, x and y are unchanged.  Nothing else changes.     *)
C5_Step ==
    (op'.name = "rotate" /\ isRunning(Eng) /\ HasPiece(Eng)) =>
        LET p == Piece(Eng)
            rot == rotateMatrix(p.matrix)
            free(i) == ~Rejected(board, rot, p.x + KickOrder[i], p.y)
            first == {i \in 1..5 : free(i) /\ \A j \in 1..(i - 1) : ~free(j)}
        IN  /\ Clockwise(p.matrix, rot)
            /\ \A i \in first :
                  currentPiece' = <<[type |-> p.type, matrix |-> rot,
                                     x |-> p.x + KickOrder[i], y |-> p.y]>>
            /\ first = {} => currentPiece' = currentPiece
            /\ UNCHANGED <<board, queue, score, linesCleared, gameOver, running>>

\* C5: every rotate of a running engine takes the first free kick or changes
\* nothing (C5_Step on every step)
C5_Rotate == [][C5_Step]_vars

\* the upright J flush against the left wall, rotated: offset 0 hits the cell
\* at row 6, column 2, offset -1 the wall, and offset +1 is taken
C5_Witness ==
    /\ op.name = "rotate"
    /\ board[7][3] # Null
    /\ currentPiece = <<[type |-> "J", matrix |-> << <<1, 1, 1>>, <<0, 0, 1>> >>,
                         x |-> 1, y |-> 5]>>
    /\ nOps = 2

---------------------------------------------------------------------------
(* C6: whenever a spawn finds its spawn position in collision with the grid, *)
(* the piece is not placed: the game is over, there is no active piece,      *)
(* running is false, and isRunning() stays false after resume() calls.       *)
C6_SpawnFailure ==
    (op.spawn # <<>> /\ LET next == SpawnOf(op.spawn[1])
                        IN  Rejected(board, next.matrix, next.x, next.y)) =>
        /\ gameOver
        /\ currentPiece = <<>>
        /\ ~running
        /\ ~isRunning(Eng)
        /\ ~isRunning(resume(Eng))
        /\ ~isRunning(resume(resume(Eng)))

\* the O locked beside the filled column 4, and the L that followed could not
\* spawn
C6_Witness ==
    /\ op.locked
    /\ op.spawn = <<"L">>
    /\ board = [r \in 1..height |->
                  IF r \in {height - 1, height}
                  THEN [TallBoard[r] EXCEPT ![1] = "O", ![2] = "O"]
                  ELSE TallBoard[r]]
    /\ gameOver
    /\ currentPiece = <<>>

---------------------------------------------------------------------------
Starts == {"start", "startSnapshot"}

(* C7: once the game-over flag is true, no pause, resume, handleAction,      *)
(* stepDown, getSnapshot or getRenderState call makes it false or changes    *)
(* the board, score or linesCleared; a start() call leaves game over.        *)
C7_Step ==
    /\ (gameOver /\ op'.name \notin Starts) =>
          /\ gameOver'
          /\ board' = board
          /\ score' = score
          /\ linesCleared' = linesCleared
    /\ (gameOver /\ op'.name = "start") => ~gameOver'

---------------------------------------------------------------------------
\* the first n entries of a queue, as slice(0, n) gives them
Slice(q, n) == SubSeq(q, 1, IF Len(q) < n THEN Len(q) ELSE n)

\* getRenderState() of a new engine started from this engine's snapshot
RoundTrip(rnd1, rnd2) ==
    getRenderState(startFrom(NewEngine, getSnapshot(Eng), rnd1), rnd2).state

\* the render state shows this engine's score, linesCleared, first three queue
\* entries and active piece kind, x and y
SameAsHere(rs) ==
    /\ rs.score = score
    /\ rs.linesCleared = linesCleared
    /\ Slice(rs.queue, 3) = Slice(queue, 3)
    /\ (rs.currentPiece = <<>>) <=> (currentPiece = <<>>)
    /\ currentPiece # <<>> =>
          /\ rs.currentPiece[1].type = currentPiece[1].type
          /\ rs.currentPiece[1].x = currentPiece[1].x
          /\ rs.currentPiece[1].y = currentPiece[1].y

(* C8: for any engine state reached after start, a new engine started from  *)
(* getSnapshot() has a getRenderState() with the same score, linesCleared,   *)
(* first 3 queue entries and active piece kind, x and y.                     *)
C8_RoundTrip ==
    session # "none" =>
        \A rnd1 \in Draws : \A rnd2 \in DrawsFor(queue) :
            \A rs \in {RoundTrip(rnd1, rnd2)} : SameAsHere(rs)

\* nine pieces are stacked, and the I, turned upright and moved to the last
\* column, has been lowered to row 10
C8_Witness ==
    /\ session = "fresh"
    /\ op.name = "softDrop"
    /\ nLocks = 9
    /\ score > 0
    /\ Len(queue) >= 3
    /\ currentPiece # <<>>
    /\ currentPiece[1].type = "I"
    /\ currentPiece[1].x = width - 1
    /\ currentPiece[1].y = 10

---------------------------------------------------------------------------
\* the spawns of the block that holds spawn number i (blocks of Len(TETROMINO_ORDER))
BlockOf(i) == (i - 1) \div Len(TETROMINO_ORDER)

(* C9: in a session begun with start() without a snapshot, the spawns        *)
(* numbered 7k+1 to 7k+7 draw each of the 7 kinds exactly once, whatever the *)
(* shuffles and the calls between them: no kind is drawn twice within a      *)
(* block, and a block of 7 spawns holds all 7 kinds.                         *)
C9_BagFairness ==
    session = "fresh" =>
        /\ \A i \in 1..Len(spawned) : spawned[i] \in TetrominoType
        /\ \A i \in 1..Len(spawned) : \A j \in 1..Len(spawned) :
              (i < j /\ BlockOf(i) = BlockOf(j)) => spawned[i] # spawned[j]
        /\ \A k \in 0..BlockOf(Len(spawned)) :
              (7 * k + 7 <= Len(spawned)) =>
                  {spawned[i] : i \in (7 * k + 1)..(7 * k + 7)} = TetrominoType

\* a session with a call that did not lock among its locks, in its second
\* block of spawns
C9_Witness ==
    /\ session = "fresh"
    /\ Len(spawned) >= 10
    /\ nOps - 1 > nLocks

---------------------------------------------------------------------------
\* RenderState.nextPiece and the queue lengths of getRenderState are as needed
NextPieceDefined ==
    \A rnd \in Draws :
        LET rs == getRenderState(Eng, rnd)
        IN  /\ rs.state.nextPiece \in TetrominoType
            /\ rs.state.nextPiece = Head(rs.engine.queue)
            /\ Len(rs.state.queue) >= Len(TETROMINO_ORDER)

(* C10, as stated: after every operation that can shrink the queue (start, a *)
(* stepDown that locks, hardDrop), the queue held by the engine has at least *)
(* 7 entries, and RenderState.nextPiece is always a defined piece kind.      *)
C10_Original ==
    /\ (op.name \in Starts \/ op.locked) => Len(queue) >= 7
    /\ NextPieceDefined

(* C10, amended: after start() and after every call that locks a piece the   *)
(* queue held by the engine has at least 6 entries (it is refilled to 7 or   *)
(* more before the head is taken, not after), after start(snapshot) it has   *)
(* at least 1, and RenderState.nextPiece is always a defined piece kind,     *)
(* getRenderState refilling the queue to 7 or more before it reads the head. *)
C10_QueueLength ==
    /\ (op.name = "start" \/ op.locked) => Len(queue) >= 6
    /\ op.name = "startSnapshot" => Len(queue) >= 1
    /\ NextPieceDefined

\* a lock that left 6 entries: the queue held 7, its head was spawned
C10_Witness ==
    /\ op.locked
    /\ Len(queue) = 6
    /\ currentPiece # <<>>


---------------------------------------------------------------------------
(* C11: handleAction(a) is a no-op for every action a whenever isRunning()  *)
(* is false (before start, while paused, after game over): board, active    *)
(* piece, queue, score, linesCleared, game-over flag and running flag are   *)
(* all unchanged.                                                            *)
C11_Step ==
    (op'.name \in InputAction /\ ~isRunning(Eng)) => UNCHANGED engineVars

\* C11: handleAction changes nothing of the engine while isRunning() is false
C11_NotRunningNoOp == [][C11_Step]_vars

\* a hardDrop sent to a paused engine: a piece is active off the floor, the game
\* is not over, and the engine is still paused (a hardDrop on a running engine
\* leaves it running or ends the game)
C11_Witness ==
    /\ op.name = "hardDrop"
    /\ session # "none"
    /\ ~running
    /\ ~gameOver
    /\ currentPiece # <<>>
    /\ canPlace(board, currentPiece[1].matrix, currentPiece[1].x, currentPiece[1].y + 1)

---------------------------------------------------------------------------
\* the x offset a shift action asks for
ShiftOf(name) == IF name = "moveLeft" THEN 0 - 1 ELSE 1

(* C12: on a running engine, moveLeft (moveRight) changes the active piece's *)
(* x by exactly -1 (+1) when the shifted position is collision-free and      *)
(* otherwise changes nothing; in both cases the piece's y and matrix, the    *)
(* board, queue, score, linesCleared and game-over flag are unchanged.       *)
C12_Step ==
    (op'.name \in {"moveLeft", "moveRight"} /\ isRunning(Eng)) =>
        /\ UNCHANGED <<board, queue, score, linesCleared, gameOver, running>>
        /\ currentPiece = <<>> => currentPiece' = <<>>
        /\ currentPiece # <<>> =>
              LET p == currentPiece[1]
                  targetX == p.x + ShiftOf(op'.name)
              IN  /\ currentPiece' # <<>>
                  /\ currentPiece'[1].type = p.type
                  /\ currentPiece'[1].matrix = p.matrix
                  /\ currentPiece'[1].y = p.y
                  /\ currentPiece'[1].x =
                        IF Rejected(board, p.matrix, targetX, p.y) THEN p.x ELSE targetX

\* C12: a shift moves the active piece by one column when that position is
\* free, and changes nothing else
C12_Shift == [][C12_Step]_vars

\* moveRight as the first call after start(snapshot) with the upright I at
\* x = 0, y = 5 and a filled cell at column 1 of row 5: the piece has stayed
C12_Witness ==
    /\ op.name = "moveRight"
    /\ nOps = 2
    /\ running
    /\ currentPiece = PieceAt("I", verticalI, 0, 5)
    /\ board[6][2] \in TetrominoType

---------------------------------------------------------------------------
\* the active piece can move down one row
CanFall ==
    /\ currentPiece # <<>>
    /\ ~Rejected(board, currentPiece[1].matrix, currentPiece[1].x, currentPiece[1].y + 1)

(* C13: from any state, stepDown(true) and stepDown(false) produce the same  *)
(* board, active piece, queue, linesCleared and game-over flag (given the    *)
(* same refill outcome); the resulting scores differ by exactly 1 when the   *)
(* piece could move down one row and are equal when the piece locked (and    *)
(* when there is no piece), so a soft drop that locks awards no drop bonus.  *)
C13_ManualOnlyScore ==
    \A rnd \in DrawsFor(queue) :
        LET manual == stepDown(Eng, TRUE, rnd)
            gravity == stepDown(Eng, FALSE, rnd)
        IN  /\ manual.board = gravity.board
            /\ manual.currentPiece = gravity.currentPiece
            /\ manual.queue = gravity.queue
            /\ manual.linesCleared = gravity.linesCleared
            /\ manual.gameOver = gravity.gameOver
            /\ manual.running = gravity.running
            /\ manual.score = IF CanFall THEN gravity.score + 1 ELSE gravity.score

\* the line-clear snapshot after three soft drops: two moved the I down for 1
\* point each, the third locked it and cleared the row for 40 and no more
C13_Witness ==
    /\ op.name = "softDrop"
    /\ op.locked
    /\ nOps = 4
    /\ linesCleared = 1
    /\ score = 42

---------------------------------------------------------------------------
(* C14: within a session (between one start call and the next), score is a   *)
(* non-negative integer that never decreases under any sequence of pause,    *)
(* resume, handleAction, stepDown and read operations.                       *)
C14_Step ==
    /\ score' \in Nat
    /\ op'.name \notin Starts => score' >= score

\* C14: no call but start lowers the score, which is a natural number
C14_ScoreMonotone == [][C14_Step]_vars

\* the well snapshot after a hard drop of the I from y = 2 to y = 16 that
\* cleared four rows: the score went from 5 to 5 + 2 * 14 + 1200
C14_Witness ==
    /\ session = "snapshot"
    /\ op.name = "hardDrop"
    /\ linesCleared = 4
    /\ score = 5 + 2 * 14 + 1200

---------------------------------------------------------------------------
\* the levels getRenderState() can report in this state
RenderLevels == {getRenderState(Eng, rnd).state.level : rnd \in Draws}

(* C15: within a session linesCleared never decreases, and the level         *)
(* reported by getRenderState() always equals floor(linesCleared / 10) + 1,  *)
(* hence level never decreases either.                                       *)
C15_Step ==
    op'.name \notin Starts => linesCleared' >= linesCleared

\* getRenderState() reports the level floor(linesCleared / 10) + 1
C15_Level ==
    /\ linesCleared \in Nat
    /\ RenderLevels = {(linesCleared \div 10) + 1}

\* C15: no call but start lowers linesCleared, and the reported level is
\* always floor(linesCleared / 10) + 1
C15_LinesAndLevel == []C15_Level /\ [][C15_Step]_vars

\* getRenderState() after the hard drop that took linesCleared from 8 to 11:
\* the level is 2
C15_Witness ==
    /\ op.name = "getRenderState"
    /\ linesCleared = 11
    /\ RenderLevels = {2}

---------------------------------------------------------------------------
(* C16: start() without a snapshot, called from any engine state (including  *)
(* paused and game over), results in an entirely empty grid, score 0,        *)
(* linesCleared 0, game-over false, an active piece present at its spawn     *)
(* position (canonical matrix, horizontally centred, y = -1), and            *)
(* isRunning() true.                                                         *)
C16_FreshStart ==
    op.name = "start" =>
        /\ \A r \in 1..height : \A c \in 1..width : board[r][c] = Null
        /\ score = 0
        /\ linesCleared = 0
        /\ ~gameOver
        /\ \E type \in TetrominoType : currentPiece = <<SpawnOf(type)>>
        /\ running

\* start() as the last of four calls, after a session in which a piece was
\* locked on the board
C16_Witness ==
    /\ op.name = "start"
    /\ nOps = 4
    /\ nLocks >= 1
    /\ currentPiece # <<>>

---------------------------------------------------------------------------
\* the last call was start(snapshot) with this snapshot
StartedFrom(snapshot) ==
    /\ op.name = "startSnapshot"
    /\ \E rnd \in Draws : Eng = startFrom(NewEngine, snapshot, rnd)

\* q begins with the entries of prefix, in order
StartsWith(q, prefix) ==
    /\ Len(q) >= Len(prefix)
    /\ SubSeq(q, 1, Len(prefix)) = prefix

(* C17, as stated: after start(snapshot) with a snapshot that has an active  *)
(* piece and a queue shorter than 7 entries (including lengths 1 to 6), the  *)
(* engine's queue has been topped up to at least 7 entries and starts with   *)
(* the snapshot's queue entries in their original order.                     *)
C17_Original ==
    \A snapshot \in Snapshots :
        (/\ StartedFrom(snapshot)
         /\ snapshot.currentPiece # <<>>
         /\ Len(snapshot.queue) < 7) =>
            /\ Len(queue) >= 7
            /\ StartsWith(queue, snapshot.queue)

\* after start(snapshot) with a snapshot that has an active piece, the queue
\* is the snapshot's queue when that has entries, however few, and a new bag
\* of 7 when it has none
C17_Hydrated ==
    \A snapshot \in Snapshots :
        (StartedFrom(snapshot) /\ snapshot.currentPiece # <<>>) =>
            /\ Len(snapshot.queue) >= 1 => queue = snapshot.queue
            /\ Len(snapshot.queue) = 0 =>
                  /\ Len(queue) = 7
                  /\ {queue[i] : i \in 1..7} = TetrominoType

\* getRenderState() tops the queue up to 7 entries or more, behind the
\* entries it holds
C17_Step ==
    op'.name = "getRenderState" =>
        /\ Len(queue') >= 7
        /\ StartsWith(queue', queue)

(* C17, amended: after start(snapshot) with a snapshot that has an active    *)
(* piece, a queue of 1 to 6 entries is left as the snapshot gave it, not     *)
(* topped up; only an empty queue is refilled, with one bag of 7.  The short *)
(* queue is topped up to at least 7 entries, behind its own entries in their *)
(* order, by the next getRenderState().                                      *)
C17_QueueAfterHydrate == []C17_Hydrated /\ [][C17_Step]_vars

\* getRenderState() after start(snapshot) with the well snapshot, whose queue
\* is T, O: the queue now holds 9 entries behind the same head
C17_Witness ==
    /\ op.name = "getRenderState"
    /\ nOps = 2
    /\ session = "snapshot"
    /\ currentPiece = PieceAt("I", verticalI, width - 1, 2)
    /\ Len(queue) = 9
    /\ StartsWith(queue, <<"T", "O">>)

---------------------------------------------------------------------------
(* C18: immediately after any start call (with or without snapshot),         *)
(* isRunning() is true if and only if the engine is not game-over: a         *)
(* snapshot with isGameOver true, or one whose backfill spawn fails, leaves  *)
(* the engine not running, and a start on a paused engine starts running.    *)
C18_RunningAfterStart ==
    op.name \in Starts =>
        /\ isRunning(Eng) <=> ~gameOver
        /\ running <=> ~gameOver

\* start(snapshot) with no piece and a Z at the head of the queue, on the
\* board whose column 4 is filled: the backfill spawn failed, the game is
\* over and the engine is not running
C18_Witness ==
    /\ op = Called("startSnapshot", FALSE, <<"Z">>)
    /\ board = TallBoard
    /\ currentPiece = <<>>
    /\ gameOver
    /\ ~running
    /\ score = 9

---------------------------------------------------------------------------
\* what isRunning() returns in this state
IsRunningNow == isRunning(Eng)

\* isRunning() is true exactly when the running flag is set and the game is
\* not over
C19_IsRunning == IsRunningNow <=> (running /\ ~gameOver)

\* pause() makes isRunning() false; resume() makes it true when the game is
\* not over and changes nothing when it is; neither touches the rest
C19_Step ==
    /\ op'.name = "pause" =>
          /\ ~IsRunningNow'
          /\ UNCHANGED <<board, currentPiece, queue, score, linesCleared, gameOver>>
    /\ op'.name = "resume" =>
          /\ UNCHANGED <<board, currentPiece, queue, score, linesCleared, gameOver>>
          /\ ~gameOver => IsRunningNow'
          /\ gameOver => (~IsRunningNow' /\ UNCHANGED running)

(* C19: isRunning() is true exactly when the running flag is set and the     *)
(* game is not over; pause() makes isRunning() false, resume() makes it true *)
(* when not game-over and is a no-op when game-over, and neither pause() nor *)
(* resume() changes the board, active piece, queue, score, linesCleared or   *)
(* game-over flag.                                                           *)
C19_PauseResume == []C19_IsRunning /\ [][C19_Step]_vars

\* resume() after a lock ended the game: the game is still over and the
\* engine still not running
C19_Witness ==
    /\ op.name = "resume"
    /\ nLocks >= 1
    /\ gameOver
    /\ ~running
    /\ currentPiece = <<>>

---------------------------------------------------------------------------
(* C20, as stated: the engine leaves the Idle state only through start: on a *)
(* constructed engine on which start has never been called, isRunning() is   *)
(* false after any sequence of pause, resume, handleAction and stepDown      *)
(* calls.  resume() on such an engine sets the run flag, the game not being  *)
(* over, and isRunning() is true from then on, without an active piece.      *)
C20_IdleUntilStart == session = "none" => ~isRunning(Eng)

---------------------------------------------------------------------------
Reads == {"getSnapshot", "getRenderState"}

(* C21, as stated: getSnapshot() and getRenderState() are read-only          *)
(* projections: calling either, in any reachable state, leaves board, active *)
(* piece, queue, score, linesCleared, game-over flag and running flag        *)
(* unchanged.                                                                *)
C21_OriginalStep == op'.name \in Reads => UNCHANGED engineVars

\* C21, as stated: neither read changes any field of the engine
C21_Original == [][C21_OriginalStep]_vars

\* the entries of q from position n + 1 on
Behind(q, n) == SubSeq(q, n + 1, Len(q))

(* C21, amended: getSnapshot() changes nothing.  getRenderState() leaves     *)
(* board, active piece, score, linesCleared, game-over flag and running flag *)
(* unchanged, and the queue too when it holds 7 entries or more; a queue of  *)
(* fewer than 7 entries it extends by one bag of the 7 kinds, behind the     *)
(* entries already there, so that a getSnapshot() taken after it shows a     *)
(* longer queue than one taken before.                                       *)
C21_Step ==
    /\ op'.name = "getSnapshot" => UNCHANGED engineVars
    /\ op'.name = "getRenderState" =>
          /\ UNCHANGED <<board, currentPiece, score, linesCleared, gameOver, running>>
          /\ Len(queue) >= 7 => queue' = queue
          /\ Len(queue) < 7 =>
                /\ Len(queue') = Len(queue) + 7
                /\ StartsWith(queue', queue)
                /\ LET bag == Behind(queue', Len(queue))
                   IN  {bag[i] : i \in 1..7} = TetrominoType

\* C21, amended: the reads change nothing but the queue, which getRenderState
\* extends by a bag when it is short
C21_Reads == [][C21_Step]_vars

\* getRenderState() right after start(): the 6 entries left by the first
\* spawn are followed by a second bag
C21_Witness ==
    /\ op.name = "getRenderState"
    /\ session = "fresh"
    /\ nOps = 2
    /\ Len(queue) = 13
    /\ currentPiece # <<>>


---------------------------------------------------------------------------
(* C22: snapshots and render states are independent copies in both          *)
(* directions: no array or object that the caller holds (a value returned   *)
(* by getSnapshot() or getRenderState(), a snapshot passed to               *)
(* start(snapshot), a matrix returned by getMatrixForType) is one that the  *)
(* engine's board, active piece or queue leads to, or one of the shape      *)
(* table, so that no write of the caller into what it holds changes the     *)
(* engine's state or what its later operations read.                        *)
C22_IndependentCopies ==
    /\ refs.dirty \subseteq refs.held
    /\ (EngineIds(refs) \cup TableIds) \cap refs.held = {}

\* the caller passed a snapshot to start, wrote into it and into what a read
\* returned, and the engine then locked a piece and spawned the next
C22_Witness ==
    /\ session = "snapshot"
    /\ op.locked
    /\ currentPiece # <<>>
    /\ refs.piece # <<>>
    /\ refs.dirty # {}
    /\ refs.dirty = refs.held

---------------------------------------------------------------------------
(* C23: in every state reachable from a constructed engine by start and any  *)
(* sequence of operations the grid has exactly H = 20 rows and every row has *)
(* exactly W = 10 cells, each empty or tagged with a piece kind, including   *)
(* after any number of line clears.                                          *)
C23_GridDimensions ==
    /\ DOMAIN board = 1..20
    /\ \A r \in DOMAIN board :
          /\ DOMAIN board[r] = 1..10
          /\ \A c \in DOMAIN board[r] : board[r][c] \in TetrominoType \cup {Null}

\* four rows were cleared at once: the marker row that lay above them is now
\* the bottom row, below empty rows
C23_Witness ==
    /\ op.locked
    /\ linesCleared = 4
    /\ board[height] = CellsAt("Z", {2})
    /\ board[height - 1] = emptyRow

---------------------------------------------------------------------------
\* the piece of a kind as a spawn places it: rotation 0, column 3 (4 for the
\* O), row -1
CanonicalSpawn(type) ==
    [type |-> type, matrix |-> TETROMINO_SHAPES[type],
     x |-> IF type = "O" THEN 4 ELSE 3, y |-> 0 - 1]

\* the outcome of a spawn that took head from the queue, on board b: the
\* piece at its spawn position, or no piece and game over when that position
\* is not free
SpawnedFrom(head, piece, over, b) ==
    LET next == CanonicalSpawn(head)
    IN  IF Rejected(b, next.matrix, next.x, next.y)
        THEN piece = <<>> /\ over
        ELSE piece = <<next>>

\* a spawn at a lock takes the head of the queue, start() the head of a new
\* bag; the queue loses its head either way
C24_Step ==
    /\ op'.locked =>
          /\ Len(queue) >= 1
          /\ SpawnedFrom(Head(queue), currentPiece', gameOver', board')
          /\ StartsWith(queue', Tail(queue))
          /\ Len(queue') = IF Len(queue) < 7 THEN Len(queue) + 6 ELSE Len(queue) - 1
    /\ op'.name = "start" =>
          /\ currentPiece' # <<>>
          /\ currentPiece' = <<CanonicalSpawn(currentPiece'[1].type)>>
          /\ Len(queue') = 6
          /\ {currentPiece'[1].type} \cup {queue'[i] : i \in 1..6} = TetrominoType

\* the backfill spawn of start(snapshot) takes the head of the snapshot's
\* queue when it has one
C24_Backfill ==
    \A snapshot \in Snapshots :
        (/\ StartedFrom(snapshot)
         /\ snapshot.currentPiece = <<>>
         /\ ~snapshot.isGameOver
         /\ snapshot.queue # <<>>) =>
            /\ SpawnedFrom(Head(snapshot.queue), currentPiece, gameOver, board)
            /\ StartsWith(queue, Tail(snapshot.queue))

(* C24: every successful spawn takes the head of the queue and produces an   *)
(* active piece with that kind, its canonical rotation-0 shape,              *)
(* x = floor((W - shapeWidth) / 2) (3 for I, J, L, S, T, Z and 4 for O) and  *)
(* y = -1; the head is removed from the queue whether or not the spawn       *)
(* succeeds.                                                                 *)
C24_Spawn == []C24_Backfill /\ [][C24_Step]_vars

\* the O was locked by a hard drop, the L at the head of the queue could not
\* be placed, and the queue has lost it
C24_Witness ==
    /\ op.name = "hardDrop"
    /\ nOps = 2
    /\ gameOver
    /\ currentPiece = <<>>
    /\ queue = <<"I", "T", "J", "S", "Z", "O">>
    /\ board[height][1] = "O"

---------------------------------------------------------------------------
\* a filled cell of piece p lies on the cell at row r, column c
Covers(p, r, c) ==
    \E row \in 0..(Len(p.matrix) - 1) :
        \E col \in 0..(Len(p.matrix[1]) - 1) :
            /\ p.matrix[row + 1][col + 1] = 1
            /\ p.y + row = r
            /\ p.x + col = c

\* board b with the kind of p written into the grid cells p covers
LockOf(p, b) ==
    [r \in 1..height |-> [c \in 1..width |->
        IF Covers(p, r - 1, c - 1) THEN p.type ELSE b[r][c]]]

\* lockCurrentPiece on the engine as it is: the covered grid cells take the
\* kind, no other cell and no other field changes, the piece is cleared
C25_Lock ==
    currentPiece # <<>> =>
        lockCurrentPiece(Eng) =
            [Eng EXCEPT !.board = LockOf(currentPiece[1], board), !.currentPiece = <<>>]

\* a call that locks without completing a row leaves the board of the lock
C25_Step ==
    (op'.locked /\ linesCleared' = linesCleared) =>
        \E fall \in {IF op'.name = "hardDrop" THEN MaxFall ELSE 0} :
            board' = LockOf([currentPiece[1] EXCEPT !.y = currentPiece[1].y + fall],
                            board)

(* C25: locking writes the piece's kind tag into exactly the grid cells      *)
(* covered by a filled cell of the active piece whose row is in [0, H) and   *)
(* column in [0, W), leaves every other grid cell unchanged, writes nothing  *)
(* for filled cells at rows < 0, and clears the active piece.                *)
C25_LockWrites == []C25_Lock /\ [][C25_Step]_vars

\* the I spawned at y = -1 over the filled column could not move down and
\* was locked there by the gravity tick: the board still shows only the O
\* locked before it
C25_Witness ==
    /\ op = Called("stepDown", TRUE, <<"Z">>)
    /\ nOps = 3
    /\ board = [r \in 1..height |->
                  IF r \in {height - 1, height}
                  THEN [TallBoard[r] EXCEPT ![1] = "O", ![2] = "O"]
                  ELSE TallBoard[r]]
    /\ \A r \in 1..height : \A c \in 1..width : board[r][c] # "I"

---------------------------------------------------------------------------
\* the topmost row a filled cell of piece p lies on
TopRow(p) ==
    CHOOSE r \in p.y..(p.y + Len(p.matrix) - 1) :
        /\ \E c \in 0..(width - 1) : Covers(p, r, c)
        /\ \A above \in p.y..(r - 1) : \A c \in 0..(width - 1) : ~Covers(p, above, c)

\* a call that locks does so with every filled cell of the piece in the grid
C26_Step ==
    op'.locked =>
        \E fall \in {IF op'.name = "hardDrop" THEN MaxFall ELSE 0} :
            TopRow([currentPiece[1] EXCEPT !.y = currentPiece[1].y + fall]) >= 0

(* C26, as stated: a piece is never locked while any of its filled cells is  *)
(* above the grid (row < 0): whenever a freshly spawned piece cannot move    *)
(* down at all, the engine ends in game-over instead of locking it, so every *)
(* lock writes all four cells of the piece into the grid.  The engine locks  *)
(* such a piece at y = -1, without the cells above the grid, and spawns the  *)
(* next.                                                                     *)
C26_NoLockAboveGrid == [][C26_Step]_vars

---------------------------------------------------------------------------
\* yy is the largest row y' >= p.y such that piece p is collision-free at
\* every row from p.y to y', at its column
LandingRow(p, yy) ==
    /\ yy >= p.y
    /\ \A k \in p.y..yy : ~Rejected(board, p.matrix, p.x, k)
    /\ Rejected(board, p.matrix, p.x, yy + 1)

\* the ghost row reported for the engine as it is
C27_Ghost ==
    \A rnd \in DrawsFor(queue) :
        \E ghostY \in {getRenderState(Eng, rnd).state.ghostY} :
            /\ ghostY = <<>> <=> currentPiece = <<>>
            /\ currentPiece # <<>> =>
                  /\ LandingRow(currentPiece[1], ghostY[1])
                  /\ Landed("hardDrop").currentPiece =
                        <<[currentPiece[1] EXCEPT !.y = ghostY[1]]>>

(* C27: getRenderState().ghostY is none exactly when there is no active      *)
(* piece, and otherwise equals the y at which the active piece would be      *)
(* locked if hardDrop were applied now: the largest y' >= y such that every  *)
(* position from y to y' at the current x is collision-free.                 *)
C27_GhostY == []C27_Ghost

\* getRenderState() with the upright I at the top of the well, 14 rows above
\* the row it would land on
C27_Witness ==
    /\ op.name = "getRenderState"
    /\ currentPiece = PieceAt("I", verticalI, width - 1, 2)
    /\ computeGhostY(Eng) = <<16>>
    /\ board[height][1] = "J"


---------------------------------------------------------------------------
(* C28: the drop interval *)

\* the level of an engine that has cleared n lines
LevelAt(n) == (n \div 10) + 1

\* max(1000 - min(level - 1, 10) * 60, 300)
IntervalAt(level) ==
    LET decay == (IF level - 1 < 10 THEN level - 1 ELSE 10) * 60
    IN  IF 1000 - decay > 300 THEN 1000 - decay ELSE 300

(* C28: getDropInterval() equals max(1000 - min(level - 1, 10) * 60, 300)    *)
(* for the current level, does not grow when the level grows, is never below *)
(* 300 ms, and is the same for any two engines with the same linesCleared:   *)
(* checked for the engine as it is and, where getRenderState() has reported  *)
(* it, for the engine with every linesCleared up to MaxLinesCleared in place *)
(* of its own.                                                               *)
C28_DropInterval ==
    /\ \A rnd \in DrawsFor(queue) :
          getRenderState(Eng, rnd).state.dropInterval = IntervalAt(LevelAt(linesCleared))
    /\ op.name = "getRenderState" =>
        \A n \in 0..MaxLinesCleared :
          \E d \in {getDropInterval([Eng EXCEPT !.linesCleared = n])} :
              /\ d = IntervalAt(LevelAt(n))
              /\ d >= 300
              /\ d = getDropInterval([NewEngine EXCEPT !.linesCleared = n])
              /\ n > 0 => d <= IntervalAt(LevelAt(n - 1))

\* getRenderState() on an engine that has reached level 2 by clearing a row
C28_Witness ==
    /\ op.name = "getRenderState"
    /\ linesCleared = 10
    /\ getDropInterval(Eng) = 940
    /\ getDropInterval([Eng EXCEPT !.linesCleared = MaxLinesCleared]) = 400


---------------------------------------------------------------------------
(* C29: determinism *)

\* the calls that take no argument, and handleAction with each action
Calls == InputAction \cup {"stepDown", "getRenderState", "getSnapshot", "pause", "resume"}

\* the engine after the call named nm when its shuffle, if any, draws rnd
Outcome(nm, rnd) ==
    CASE nm = "stepDown" -> stepDown(Eng, FALSE, rnd)
      [] nm = "getRenderState" -> getRenderState(Eng, rnd).engine
      [] nm = "getSnapshot" -> Eng
      [] nm = "pause" -> pause(Eng)
      [] nm = "resume" -> resume(Eng)
      [] OTHER -> handleAction(Eng, nm, rnd)

\* the fields the two engines are compared on
Observed(e) == <<e.board, e.currentPiece, e.queue, e.score, e.linesCleared, e.gameOver>>

\* Two engines that were started from the same snapshot and have been equal so
\* far are equal after the next call, whatever their shuffles draw.
C29_Original ==
    session = "snapshot" =>
        \A nm \in Calls :
            \A rnd \in Draws :
                Observed(Outcome(nm, rnd)) = Observed(Outcome(nm, DrawsOf(0)))

\* engines a and b come out of the same call on the same engine, whose queue
\* was q, under two draws: they are equal when the call did not refill the
\* queue; when it refilled a queue that was not empty they differ at most in
\* the 7 entries the refill appended
UpToRefill(q, a, b) ==
    /\ (Len(q) >= Len(TETROMINO_ORDER) \/ Len(a.queue) <= Len(q)) => b = a
    /\ q # <<>> =>
          /\ [b EXCEPT !.queue = a.queue] = a
          /\ Len(b.queue) = Len(a.queue)
          /\ \A i \in 1..(Len(a.queue) - Len(TETROMINO_ORDER)) : b.queue[i] = a.queue[i]

\* every call on the engine as it is, under every two draws
C29_Calls ==
    /\ \A nm \in Calls :
          \E a \in {Outcome(nm, DrawsOf(0))} :
              \A rnd \in Draws \ {DrawsOf(0)} : UpToRefill(queue, a, Outcome(nm, rnd))
    /\ op.name \in Starts \cup {"new"} =>
          \A snapshot \in Snapshots :
              \E a \in {startFrom(Eng, snapshot, DrawsOf(0))} :
                  \A rnd \in Draws \ {DrawsOf(0)} :
                      UpToRefill(snapshot.queue, a, startFrom(Eng, snapshot, rnd))

(* C29: the engine is deterministic up to the shuffle of a refill: a call    *)
(* that does not refill the queue (the queue holds 7 entries or more, or the *)
(* call neither spawns nor is getRenderState) has one outcome; a call that   *)
(* refills a queue that is not empty has one outcome for board, active       *)
(* piece, score, linesCleared, game-over flag, running flag and the entries  *)
(* of the queue before the appended bag; the same holds of start(snapshot)   *)
(* on an engine that is new or was just started.                             *)
C29_Deterministic == []C29_Calls

\* after start(snapshot), a lock has refilled a queue that was not empty, and
\* the bag it appended is not the one the first draw gives
C29_Witness ==
    /\ session = "snapshot"
    /\ op.locked
    /\ Len(queue) > Len(TETROMINO_ORDER)
    /\ Behind(queue, Len(queue) - Len(TETROMINO_ORDER)) # shuffle(TETROMINO_ORDER, DrawsOf(0))
    /\ \E rnd \in Draws : Observed(Outcome("getRenderState", rnd)) = Observed(Eng)


---------------------------------------------------------------------------
(* C30: the queue is first-in first-out *)

\* the kinds spawned since the last start followed by the kinds still queued
Supply == spawned \o queue

\* every call but start leaves the supply as it is or appends to it; a lock
\* spawns the kind that was at the head of a queue that was not empty, and
\* the kind getRenderState() reported when that was the call before the lock
C30_Step ==
    op'.name \notin Starts =>
        /\ StartsWith(spawned' \o queue', Supply)
        /\ op'.locked =>
              /\ Len(spawned') = Len(spawned) + 1
              /\ ~gameOver' =>
                    /\ currentPiece' # <<>>
                    /\ currentPiece'[1].type = spawned'[Len(spawned')]
              /\ op.name = "getRenderState" =>
                    \A rnd \in DrawsFor(queue) :
                        getRenderState(Eng, rnd).state.nextPiece
                            = spawned'[Len(spawned')]
        /\ ~op'.locked => spawned' = spawned

\* hard drops on engine e spawn the kinds of rest one after the other, until
\* rest is used up or the game is over
RECURSIVE SpawnsInOrder(_, _)
SpawnsInOrder(e, rest) ==
    \/ rest = <<>>
    \/ e.gameOver
    \/ \A rnd \in DrawsFor(e.queue) :
          \E e1 \in {handleAction(e, "hardDrop", rnd)} :
              /\ e1.gameOver \/ (HasPiece(e1) /\ Piece(e1).type = Head(rest))
              /\ e1.queue # <<>>
              /\ StartsWith(e1.queue, Tail(rest))
              /\ SpawnsInOrder(e1, Tail(rest))

\* right after start(snapshot) with an active piece and a queue q that is not
\* empty: the queue is q and the next |q| locks spawn q in order
C30_FromSnapshot ==
    \A snapshot \in Snapshots :
        (/\ StartedFrom(snapshot)
         /\ snapshot.currentPiece # <<>>
         /\ snapshot.queue # <<>>) =>
            /\ spawned = <<>>
            /\ queue = snapshot.queue
            /\ SpawnsInOrder(Eng, snapshot.queue)

(* C30: the queue is first-in first-out and refills only append: after       *)
(* start(snapshot) with a queue q that is not empty and an active piece, the *)
(* kinds of the next |q| spawned pieces are q in order, and the piece a lock *)
(* spawns has the kind getRenderState().nextPiece reported just before it.   *)
C30_Fifo == []C30_FromSnapshot /\ [][C30_Step]_vars

\* after start(snapshot) with the queue T, O: three locks have spawned T, O
\* and the first kind of the bag a refill appended, which is the active piece
C30_Witness ==
    /\ session = "snapshot"
    /\ op.locked
    /\ Len(spawned) = 3
    /\ SubSeq(spawned, 1, 2) = <<"T", "O">>
    /\ ~gameOver
    /\ currentPiece # <<>>
    /\ currentPiece[1].type = spawned[3]


---------------------------------------------------------------------------
(* C31: the gravity tick on a paused engine *)

\* the engine is paused: not running, not over
Paused == ~running /\ ~gameOver

(* C31: stepDown does not check the running flag: on a paused engine with an *)
(* active piece it moves the piece down one row (with the point of a manual  *)
(* step when called with manual = true), or locks, clears and spawns,        *)
(* exactly as on the same engine running; the engine stays not running.      *)
C31_Step ==
    (op'.name = "stepDown" /\ Paused /\ currentPiece # <<>>) =>
        /\ \E manual \in BOOLEAN : \E rnd \in DrawsFor(queue) :
              \E r \in {stepDown([Eng EXCEPT !.running = TRUE], manual, rnd)} :
                  /\ board' = r.board
                  /\ currentPiece' = r.currentPiece
                  /\ queue' = r.queue
                  /\ score' = r.score
                  /\ linesCleared' = r.linesCleared
                  /\ gameOver' = r.gameOver
        /\ ~running'
        /\ CanFall =>
              /\ currentPiece' = <<[currentPiece[1] EXCEPT !.y = @ + 1]>>
              /\ score' - score \in {0, 1}
              /\ UNCHANGED <<board, queue, linesCleared, gameOver>>
        /\ ~CanFall =>
              /\ op'.locked
              /\ Len(queue') # Len(queue)
              /\ currentPiece' # <<>> =>
                    /\ currentPiece'[1].type = op'.spawn[1]
                    /\ currentPiece'[1].y = -1

C31_PausedTick == [][C31_Step]_vars

\* stepDown on a paused engine has locked the piece and cleared a row
C31_Witness ==
    /\ op.name = "stepDown"
    /\ op.locked
    /\ ~running
    /\ ~gameOver
    /\ linesCleared \in {1, 10}
    /\ currentPiece # <<>>


---------------------------------------------------------------------------
(* C32: hardDrop and repeated gravity ticks *)

\* stepDown(false) called on e until the call that locks the piece, that call
\* included: the engine it leaves and the number of calls that moved the piece
RECURSIVE TickUntilLock(_, _, _)
TickUntilLock(e, rnd, moves) ==
    IF StepLocks(e)
    THEN [engine |-> stepDown(e, FALSE, rnd), moves |-> moves]
    ELSE TickUntilLock(stepDown(e, FALSE, rnd), rnd, moves + 1)

\* hardDrop on the engine as it is against the gravity ticks, under each draw
C32_Drop ==
    currentPiece # <<>> =>
        \A rnd \in DrawsFor(queue) :
            \E hard \in {hardDrop(Eng, rnd)} :
                \E ticks \in {TickUntilLock(Eng, rnd, 0)} :
                    /\ hard.board = ticks.engine.board
                    /\ hard.currentPiece = ticks.engine.currentPiece
                    /\ hard.queue = ticks.engine.queue
                    /\ hard.linesCleared = ticks.engine.linesCleared
                    /\ hard.gameOver = ticks.engine.gameOver
                    /\ hard.running = ticks.engine.running
                    /\ hard.score = ticks.engine.score + 2 * ticks.moves
                    /\ ticks.moves = MaxFall

(* C32: hardDrop has the same effect on board, active piece, queue,          *)
(* linesCleared and game-over flag as stepDown(false) called until the piece  *)
(* locks (d moves, then one locking call), given the same refill; the two    *)
(* runs differ only in score, by exactly 2*d.                                *)
C32_HardDropAsTicks == []C32_Drop

\* a hardDrop has moved the upright I down the well and cleared rows, and the
\* piece it spawned would travel some rows in turn
C32_Witness ==
    /\ op.name = "hardDrop"
    /\ op.locked
    /\ linesCleared >= 3
    /\ currentPiece # <<>>
    /\ TickUntilLock(Eng, DrawsOf(0), 0).moves > 10


---------------------------------------------------------------------------
(* C33: rows cleared by one lock in a session begun by start() *)

(* C33: in a session begun with start() without a snapshot, a lock clears    *)
(* between 0 and 4 rows, so the SCORE_TABLE lookup is within the table, and  *)
(* a clear of n > 0 rows awards SCORE_TABLE[n] * level > 0 points.           *)
C33_Step ==
    (session = "fresh" /\ op'.locked) =>
        \E nm \in {op'.name} :
          \E n \in {CompleteRows(LockedBoard(nm))} :
            \E bonus \in {IF nm = "hardDrop" THEN 2 * MaxFall ELSE 0} :
                /\ n \in 0..4
                /\ n + 1 <= Len(SCORE_TABLE)
                /\ linesCleared' = linesCleared + n
                /\ n = 0 => score' = score + bonus
                /\ n > 0 =>
                      /\ score' - (score + bonus) = SCORE_TABLE[n + 1] * LevelAt(linesCleared')
                      /\ score' - (score + bonus) > 0

C33_RowsPerLock == [][C33_Step]_vars

\* the tenth lock of a session, an upright I lowered into the last column, has
\* completed the four bottom rows at once and left the grid empty
C33_Witness ==
    /\ session = "fresh"
    /\ op.locked
    /\ op.name = "softDrop"
    /\ nLocks = 10
    /\ linesCleared = 4
    /\ score >= SCORE_TABLE[5]
    /\ board = createEmptyBoard


---------------------------------------------------------------------------
(* C34: the scene's gravity scheduler *)

\* board, piece, score, linesCleared and the two flags stay as they are (the
\* queue may be refilled by the getRenderState() of a draw)
NoTickEffect == UNCHANGED <<board, currentPiece, score, linesCleared, gameOver, running>>

(* C34: the scene invokes engine.stepDown only in an update where            *)
(* engine.isRunning() is true and the accumulated time has reached the drop  *)
(* interval, at most once per update; it sets the accumulator to 0 after     *)
(* each tick and on start and resume; while the game is paused or over an    *)
(* update makes no tick and leaves the accumulator as it is.                 *)
C34_Step ==
    /\ scene'.ticked => op'.name = "update"
    /\ op'.name = "update" =>
          /\ scene'.ticked =>
                /\ scene.ready
                /\ running /\ ~gameOver
                /\ \E delta \in Deltas :
                      /\ scene.dropTimer + delta >= scene.dropInterval
                      /\ scene.dropTimer + delta >= IntervalAt(LevelAt(linesCleared))
                /\ scene'.dropTimer = 0
                /\ scene'.dropInterval = IntervalAt(LevelAt(linesCleared'))
                /\ nLocks' <= nLocks + 1
                /\ CanFall =>
                      /\ nLocks' = nLocks
                      /\ currentPiece' = <<[currentPiece[1] EXCEPT !.y = @ + 1]>>
                /\ (currentPiece # <<>> /\ ~CanFall) => nLocks' = nLocks + 1
          /\ ~scene'.ticked =>
                /\ NoTickEffect
                /\ nLocks' = nLocks
                /\ scene'.dropTimer \in {scene.dropTimer} \cup
                                        {scene.dropTimer + delta : delta \in Deltas}
                /\ scene'.dropTimer < scene.dropInterval \/ ~scene.ready \/ ~(running /\ ~gameOver)
          /\ ~(running /\ ~gameOver) =>
                /\ ~scene'.ticked
                /\ scene'.dropTimer = scene.dropTimer
    /\ op'.name \in {"startNewGame", "resumeGame"} =>
          /\ scene'.dropTimer = 0
          /\ scene'.dropInterval = IntervalAt(LevelAt(linesCleared'))

C34_Scheduler == [][C34_Step]_vars

\* an update has made the tick after the game was paused and resumed
C34_Witness ==
    /\ op.name = "update"
    /\ scene.ticked
    /\ scene.dropTimer = 0
    /\ running
    /\ currentPiece # <<>>
    /\ currentPiece[1].y >= 0
    /\ nOps >= 5


\* C35: in every state of a session begun by start() without a snapshot, the
\* active piece, when there is one, is at a collision-free position (each of
\* its filled cells is in a column of the grid, above the floor, and, when its
\* row is in the grid, on an empty cell), and its row y is at least -1.
C35_CollisionFree ==
    (session = "fresh" /\ HasPiece(Eng)) =>
        /\ ~Rejected(Eng.board, Piece(Eng).matrix, Piece(Eng).x, Piece(Eng).y)
        /\ Piece(Eng).y >= -1

\* a moveLeft was refused by the stack: the upright I is in the last column,
\* between the wall and the filled cells of column 8, where it was
C35_Witness ==
    /\ session = "fresh"
    /\ op.name = "moveLeft"
    /\ HasPiece(Eng)
    /\ Piece(Eng).type = "I"
    /\ Piece(Eng).x = width - 1
    /\ Piece(Eng).y >= height - 6
    /\ board[Piece(Eng).y + 4][width - 1] # Null
    /\ board[Piece(Eng).y + 4][width] = Null


---------------------------------------------------------------------------
\* C36: in every state reached after a start() without a snapshot, the active
\* piece is absent exactly when the game-over flag is set, game-over implies
\* that the running flag is clear, and stepDown, manual or not, changes
\* nothing in a game-over state.
C36_GameOver ==
    session = "fresh" =>
        /\ currentPiece = <<>> <=> gameOver
        /\ gameOver => ~running
        /\ gameOver => \A manual \in BOOLEAN : \A rnd \in Draws :
                           stepDown(Eng, manual, rnd) = Eng

\* stepDown called on a fresh session that a failed spawn has ended
C36_Witness ==
    /\ session = "fresh"
    /\ op.name = "stepDown"
    /\ ~op.locked
    /\ nLocks >= 1
    /\ gameOver
    /\ currentPiece = <<>>
    /\ ~running


---------------------------------------------------------------------------
\* C37: in every state reached from start() without a snapshot, seen between
\* two calls, no row of the grid is complete: every row has an empty cell.
C37_NoCompleteRow ==
    session = "fresh" => \A r \in 1..height : Incomplete(board[r])

\* the lock that filled the bottom row of a fresh session: the row was
\* cleared and what stood above it has come down
C37_Witness ==
    /\ session = "fresh"
    /\ op.locked
    /\ linesCleared = 1
    /\ \E c \in 1..width : board[height][c] # Null


---------------------------------------------------------------------------
\* a quarter turn clockwise of a shape: the cell at row r, column c of a
\* matrix of n rows goes to row c, column n - 1 - r
QuarterTurn(m) ==
    LET cells == {<<rc[2], Len(m) - 1 - rc[1]>> :
                     rc \in {p \in (0..(Len(m) - 1)) \X (0..(Len(m[1]) - 1)) :
                                m[p[1] + 1][p[2] + 1] = 1}}
    IN  [i \in 1..Len(m[1]) |-> [j \in 1..Len(m) |->
            IF <<i - 1, j - 1>> \in cells THEN 1 ELSE 0]]

\* the four rotations of the canonical shape of a kind
Rotations(type) ==
    LET m == TETROMINO_SHAPES[type]
    IN  {m, QuarterTurn(m), QuarterTurn(QuarterTurn(m)),
         QuarterTurn(QuarterTurn(QuarterTurn(m)))}

\* the number of cells of a matrix that hold 1
Ones(m) ==
    Cardinality({p \in (1..Len(m)) \X (1..Len(m[1])) : m[p[1]][p[2]] = 1})

\* rotateMatrix applied n times
RECURSIVE Rotated(_, _)
Rotated(m, n) == IF n = 0 THEN m ELSE Rotated(rotateMatrix(m), n - 1)

\* C38: for each of the 7 canonical shapes, rotateMatrix applied four times
\* gives the shape back and every rotation has exactly 4 filled cells; and in
\* a session begun by start() the matrix of the active piece is one of the
\* four rotations of the canonical shape of its kind.
C38_Rotations ==
    /\ \A type \in TetrominoType :
          /\ Rotated(TETROMINO_SHAPES[type], 4) = TETROMINO_SHAPES[type]
          /\ \A n \in 0..4 : Ones(Rotated(TETROMINO_SHAPES[type], n)) = 4
    /\ (session = "fresh" /\ currentPiece # <<>>) =>
          currentPiece[1].matrix \in Rotations(currentPiece[1].type)

\* the third rotation of a piece that has four different rotations
C38_Witness ==
    /\ session = "fresh"
    /\ op.name = "rotate"
    /\ currentPiece # <<>>
    /\ Cardinality(Rotations(currentPiece[1].type)) = 4
    /\ currentPiece[1].matrix = Rotated(TETROMINO_SHAPES[currentPiece[1].type], 3)


---------------------------------------------------------------------------
(* SpecGravity: calls on the engine alone, no scene: start() without a     *)
(* snapshot, then nothing but stepDown(false), which the caller repeats    *)
(* while engine.isRunning(), with every outcome of each refill's shuffle   *)

\* engine.stepDown() with manual = false, on a running engine
GravityTick ==
    /\ session = "fresh"
    /\ isRunning(Eng)
    /\ \E rnd \in DrawsFor(queue) :
         \E res \in {stepDown(Eng, FALSE, rnd)} :
           \E locks \in {StepLocks(Eng)} :
             \E drawn \in {IF locks THEN <<nextKind(queue, rnd)>> ELSE <<>>} :
               /\ Becomes(res)
               /\ op' = Called("stepDown", locks, drawn)
               /\ nOps' = nOps + 1
               /\ nLocks' = IF locks THEN nLocks + 1 ELSE nLocks
               /\ spawned' = spawned \o drawn
    /\ UNCHANGED <<session, probe, refs, scene>>

NextGravity ==
    \/ SessionStart
    \/ GravityTick

SpecGravity == Init /\ [][NextGravity]_vars

\* the caller goes on calling stepDown(false) as long as the engine runs
SpecGravityFair == SpecGravity /\ WF_vars(GravityTick)

\* no line has been cleared in the session
C39_NoClear == session = "fresh" => linesCleared = 0

(* C39: from start(), under gravity ticks stepDown(false) alone (no move, no *)
(* rotation), the engine eventually reaches game-over, whatever the shuffles *)
(* of the bags, and no line is ever cleared on the way.                      *)
C39_GravityEnds == []C39_NoClear /\ ((session = "fresh") ~> gameOver)

\* the tick whose lock ended the game, the pieces stacked in the middle
\* columns up to the top row, the outer columns empty
C39_Witness ==
    /\ session = "fresh"
    /\ op.name = "stepDown"
    /\ op.locked
    /\ gameOver
    /\ linesCleared = 0
    /\ nLocks >= 6
    /\ \E c \in 1..width : board[1][c] # Null
    /\ \A r \in 1..height : board[r][1] = Null /\ board[r][width] = Null

=============================================================================
